---- MODULE Spec2Model ----
(***************************************************************************)
(* A model of the zyrajs request-dispatch pipeline: the Router (pattern    *)
(* compilation through path-to-regexp, first-match resolution, parameter   *)
(* extraction), the App's registration surface (global middleware, group   *)
(* contexts with prefix and middleware stacks), the Response wrapper and   *)
(* the asynchronous middleware/handler chain run by App._handleRequest.    *)
(*                                                                         *)
(* Strings are sequences of one-character strings.  JavaScript arrays that *)
(* are shared by reference (a group's middleware stack, a route's          *)
(* middleware) live in `heap` and are named by their index.  The           *)
(* JavaScript run-to-completion scheduling is modelled by a call stack of  *)
(* activations, a FIFO microtask queue and macrotasks (timers, socket      *)
(* events) that fire only when both are empty.                             *)
(***************************************************************************)
EXTENDS Integers, Sequences, FiniteSets, TLC

VARIABLES
  routes,        \* Router.routes
  middleware,    \* App.middleware (global middleware, fn ids)
  heap,          \* array objects: group stacks and route middleware arrays
  ctxs,          \* group contexts created so far (closures of _createGroupContext)
  fnOwner,       \* history: fnOwner[f] = context whose use() registered fn f (0: app)
  routeLog,      \* history: per route, the registering context, the stack expected
                 \* and the number of use() calls made before it
  ctxLog,        \* history: per context, its parent and the stack it inherited
  reqs,          \* per request: the state of one _handleRequest invocation
  acts,          \* activations of next / middleware / finalHandler / handlers
  callStack,     \* activations running synchronously, innermost last
  microtasks,    \* FIFO queue of promise continuations
  crashed,       \* an unhandled rejection terminated the process
  budget,        \* what user code may still do (bounds the exploration)
  cors,          \* a middleware made by cors(options) and one invocation of it
  rejected       \* history: the registration calls that threw, in call order

vars == <<routes, middleware, heap, ctxs, fnOwner, routeLog, ctxLog, reqs, acts,
          callStack, microtasks, crashed, budget, cors, rejected>>

appVars == <<routes, middleware, heap, ctxs, fnOwner, routeLog, ctxLog, cors,
             rejected>>
runVars == <<reqs, acts, callStack, microtasks, crashed, budget>>

\* no cors middleware has been made
NoCors == [pc |-> "none"]

----------------------------------------------------------------------------
(* Bounds of the exploration.                                              *)

MaxRoutes == 2
MaxUse == 2
MaxCtxs == 2
MaxHandlers == 2
MaxLevelUse == 1
MaxChain == 4
MaxRequests == 1
MaxExtraNext == 1
MaxSuspend == 1
MaxNest == 3
MaxInFlight == 2
MaxRejected == 2

----------------------------------------------------------------------------
(* Strings.                                                                *)

StartsWith(s, c) == Len(s) >= 1 /\ s[1] = c
EndsWith(s, c) == Len(s) >= 1 /\ s[Len(s)] = c
DropLast(s) == SubSeq(s, 1, Len(s) - 1)

Lower(c) == IF c = "A" THEN "a" ELSE IF c = "U" THEN "u" ELSE c

\* String.prototype.toUpperCase on a method name
ToUpperCase(m) == IF m = "get" THEN "GET" ELSE IF m = "post" THEN "POST" ELSE m

IsNameChar(c) == c \notin {"/", ":"}

----------------------------------------------------------------------------
(* path-to-regexp (the 6.x line, called as pathToRegexp(path, keys)):      *)
(* parse() turns a pattern into tokens, a literal string or a key          *)
(* {name, prefix}; tokensToRegexp() anchors them with the default options  *)
(* strict = false, end = true, sensitive = false.                          *)

\* lexer: the name after a ':' is the longest run of name characters
RECURSIVE NameEnd(_, _)
NameEnd(s, i) ==
  IF i <= Len(s) /\ IsNameChar(s[i]) THEN NameEnd(s, i + 1) ELSE i

Lit(text) == [key |-> FALSE, text |-> text, name |-> <<>>, prefix |-> <<>>]
Key(name, prefix) == [key |-> TRUE, text |-> <<>>, name |-> name, prefix |-> prefix]

\* a literal character joins the literal token under construction
AddChar(toks, c) ==
  IF Len(toks) > 0 /\ ~toks[Len(toks)].key
  THEN [toks EXCEPT ![Len(toks)].text = Append(@, c)]
  ELSE Append(toks, Lit(<<c>>))

\* parse(): [ok, tokens]; ok = FALSE stands for the TypeError
\* "Missing parameter name"
RECURSIVE Parse(_, _, _)
Parse(s, i, toks) ==
  IF i > Len(s) THEN [ok |-> TRUE, tokens |-> toks]
  ELSE IF s[i] = ":" THEN
    LET e == NameEnd(s, i + 1) IN
    IF e = i + 1 THEN [ok |-> FALSE, tokens |-> <<>>]
    ELSE Parse(s, e, Append(toks, Key(SubSeq(s, i + 1, e - 1), <<>>)))
  ELSE IF s[i] = "/" /\ i < Len(s) /\ s[i + 1] = ":" THEN
    LET e == NameEnd(s, i + 2) IN
    IF e = i + 2 THEN [ok |-> FALSE, tokens |-> <<>>]
    ELSE Parse(s, e, Append(toks, Key(SubSeq(s, i + 2, e - 1), <<"/">>)))
  ELSE Parse(s, i + 1, AddChar(toks, s[i]))

pathToRegexp(path) == Parse(path, 1, <<>>)

\* keys.map(key => key.name)
RECURSIVE KeyNames(_, _)
KeyNames(toks, i) ==
  IF i > Len(toks) THEN <<>>
  ELSE IF toks[i].key THEN <<toks[i].name>> \o KeyNames(toks, i + 1)
  ELSE KeyNames(toks, i + 1)

\* the flag "i" of the compiled expression: letters compare without case
SameChar(a, b) == Lower(a) = Lower(b)

HasAt(p, pos, text) ==
  /\ pos + Len(text) - 1 <= Len(p)
  /\ \A k \in 1..Len(text) : SameChar(p[pos + k - 1], text[k])

NoMatch == [ok |-> FALSE, caps |-> <<>>]

\* RegExp.prototype.exec of "^" tokens "[\/#\?]?$": the captures of the
\* first match in backtracking order; a key is the lazy group
\* (?:prefix([^\/#\?]+?))
RECURSIVE ExecFrom(_, _, _, _)
RECURSIVE ExecKey(_, _, _, _, _)
ExecFrom(toks, ti, p, pos) ==
  IF ti > Len(toks) THEN
    IF pos = Len(p) + 1 \/ (pos = Len(p) /\ p[pos] = "/")
    THEN [ok |-> TRUE, caps |-> <<>>] ELSE NoMatch
  ELSE IF ~toks[ti].key THEN
    IF HasAt(p, pos, toks[ti].text)
    THEN ExecFrom(toks, ti + 1, p, pos + Len(toks[ti].text)) ELSE NoMatch
  ELSE IF HasAt(p, pos, toks[ti].prefix)
    THEN ExecKey(toks, ti, p, pos + Len(toks[ti].prefix), 1) ELSE NoMatch
ExecKey(toks, ti, p, start, n) ==
  IF start + n - 1 > Len(p) \/ p[start + n - 1] = "/" THEN NoMatch
  ELSE LET rest == ExecFrom(toks, ti + 1, p, start + n) IN
       IF rest.ok
       THEN [ok |-> TRUE, caps |-> <<SubSeq(p, start, start + n - 1)>> \o rest.caps]
       ELSE ExecKey(toks, ti, p, start, n + 1)

RegexExec(regex, path) == ExecFrom(regex, 1, path, 1)

----------------------------------------------------------------------------
(* Router.                                                                 *)

\* a variant that stores the pattern it cannot compile as a literal text
AddRoute_lenient(rs, method, path, handlers, mw) ==
  LET compiled == pathToRegexp(path) IN
  [ok |-> TRUE,
   routes |-> Append(rs, [method |-> ToUpperCase(method),
                          path |-> path,
                          regex |-> IF compiled.ok THEN compiled.tokens
                                    ELSE <<Lit(path)>>,
                          paramNames |-> KeyNames(compiled.tokens, 1),
                          handlers |-> handlers,
                          middleware |-> mw])]

\* Router.addRoute: [ok, routes]; ok = FALSE when pathToRegexp throws
\* (nothing is pushed).  `mw` is the fresh, empty middleware array.
AddRoute(rs, method, path, handlers, mw) ==
  LET compiled == pathToRegexp(path) IN
  IF ~compiled.ok THEN [ok |-> FALSE, routes |-> rs]
  ELSE [ok |-> TRUE,
        routes |-> Append(rs, [method |-> ToUpperCase(method),
                               path |-> path,
                               regex |-> compiled.tokens,
                               paramNames |-> KeyNames(compiled.tokens, 1),
                               handlers |-> handlers,
                               middleware |-> mw])]

\* a variant that reads matches[i + 2]: the capture after the right one
RECURSIVE ExtractFrom_shifted(_, _, _, _)
ExtractFrom_shifted(paramNames, caps, i, params) ==
  IF i > Len(paramNames) THEN params
  ELSE ExtractFrom_shifted(paramNames, caps, i + 1,
         (paramNames[i] :> (IF i < Len(caps) THEN caps[i + 1] ELSE <<>>)) @@ params)

\* Router._extractParams: params[paramNames[i]] = matches[i + 1]
RECURSIVE ExtractFrom(_, _, _, _)
ExtractFrom(paramNames, caps, i, params) ==
  IF i > Len(paramNames) THEN params
  ELSE ExtractFrom(paramNames, caps, i + 1, (paramNames[i] :> caps[i]) @@ params)

NoParams == [n \in {} |-> <<>>]

ExtractParams(paramNames, caps) == ExtractFrom(paramNames, caps, 1, NoParams)

\* a variant in which a later matching route replaces an earlier one
RECURSIVE MatchFrom_lastWins(_, _, _, _)
MatchFrom_lastWins(rs, i, method, path) ==
  IF i > Len(rs) THEN [route |-> 0, params |-> NoParams]
  ELSE LET later == MatchFrom_lastWins(rs, i + 1, method, path)
           m == RegexExec(rs[i].regex, path) IN
       IF later.route # 0 THEN later
       ELSE IF rs[i].method = ToUpperCase(method) /\ m.ok
       THEN [route |-> i, params |-> ExtractParams(rs[i].paramNames, m.caps)]
       ELSE later

\* a variant that does not compare the methods
RECURSIVE MatchFrom_anyMethod(_, _, _, _)
MatchFrom_anyMethod(rs, i, method, path) ==
  IF i > Len(rs) THEN [route |-> 0, params |-> NoParams]
  ELSE LET m == RegexExec(rs[i].regex, path) IN
       IF m.ok THEN [route |-> i, params |-> ExtractParams(rs[i].paramNames, m.caps)]
       ELSE MatchFrom_anyMethod(rs, i + 1, method, path)

\* Router.match: index of the returned route (0 for null) and its params
RECURSIVE MatchFrom(_, _, _, _)
MatchFrom(rs, i, method, path) ==
  IF i > Len(rs) THEN [route |-> 0, params |-> NoParams]
  ELSE IF rs[i].method # ToUpperCase(method) THEN MatchFrom(rs, i + 1, method, path)
  ELSE LET m == RegexExec(rs[i].regex, path) IN
       IF m.ok THEN [route |-> i, params |-> ExtractParams(rs[i].paramNames, m.caps)]
       ELSE MatchFrom(rs, i + 1, method, path)

Match(rs, method, path) == MatchFrom(rs, 1, method, path)

----------------------------------------------------------------------------
(* App: registration.                                                      *)

\* the array a reference names; 0 is the literal [] of App.group
ArrayAt(h, ref) == IF ref = 0 THEN <<>> ELSE h[ref]

\* _createGroupContext: normalizedPrefix and cleanPrefix
NormalizedPrefix(prefix) ==
  IF StartsWith(prefix, "/") THEN prefix ELSE <<"/">> \o prefix

CleanPrefix(prefix) ==
  LET np == NormalizedPrefix(prefix) IN
  IF EndsWith(np, "/") /\ Len(np) > 1 THEN DropLast(np) ELSE np

\* a variant that keeps the parent's array instead of copying it
GroupMiddlewareRef_shared(h, parentRef) ==
  IF parentRef = 0 THEN Len(h) + 1 ELSE parentRef

\* _createGroupContext: groupMiddleware = [...parentMiddleware] is a new
\* array, allocated at the end of the heap
GroupMiddlewareRef(h, parentRef) == Len(h) + 1

CreateGroupContext(h, prefix, parentRef) ==
  [ctx |-> [cleanPrefix |-> CleanPrefix(prefix),
            groupMiddleware |-> GroupMiddlewareRef(h, parentRef)],
   heap |-> Append(h, ArrayAt(h, parentRef))]

\* groupContext.use: groupMiddleware.push(middleware)
GroupUse(h, ref, f) == [h EXCEPT ![ref] = Append(@, f)]

\* a variant that stores the group's own array in the route, without copying
AddGroupMiddlewareToRoute_shared(rs, h, mwRef) ==
  IF Len(h[mwRef]) > 0 /\ Len(rs) > 0
  THEN [routes |-> [rs EXCEPT ![Len(rs)].middleware = mwRef], heap |-> h]
  ELSE [routes |-> rs, heap |-> h]

\* a variant that writes the first route of the table
AddGroupMiddlewareToRoute_first(rs, h, mwRef) ==
  IF Len(h[mwRef]) > 0 /\ Len(rs) > 0
  THEN [routes |-> [rs EXCEPT ![1].middleware = Len(h) + 1],
        heap |-> Append(h, h[mwRef])]
  ELSE [routes |-> rs, heap |-> h]

\* _addGroupMiddlewareToRoute: lastRoute.middleware = [...middleware]
AddGroupMiddlewareToRoute(rs, h, mwRef) ==
  IF Len(h[mwRef]) > 0 /\ Len(rs) > 0
  THEN [routes |-> [rs EXCEPT ![Len(rs)].middleware = Len(h) + 1],
        heap |-> Append(h, h[mwRef])]
  ELSE [routes |-> rs, heap |-> h]

\* the handlers of a registration call: nh distinct functions
Handlers(nh) == [k \in 1..nh |-> k]

\* history: the functions use()d on context g so far, in call order
RECURSIVE UsesFrom(_, _, _)
UsesFrom(owner, g, f) ==
  IF f > Len(owner) THEN <<>>
  ELSE IF owner[f] = g THEN <<f>> \o UsesFrom(owner, g, f + 1)
  ELSE UsesFrom(owner, g, f + 1)

\* history: the stack context g has accumulated: what it inherited when it
\* was created, then its own use() calls
ExpectedStack(a, g) == a.ctxLog[g].inherited \o UsesFrom(a.fnOwner, g, 1)

\* The registration calls, as functions of the application's state a.

NewApp ==
  [routes |-> <<>>, middleware |-> <<>>, heap |-> <<>>, ctxs |-> <<>>,
   fnOwner |-> <<>>, routeLog |-> <<>>, ctxLog |-> <<>>, rejected |-> <<>>]

\* App.use
App_use(a) ==
  [a EXCEPT !.middleware = Append(@, Len(a.fnOwner) + 1),
            !.fnOwner = Append(@, 0)]

\* App.get / post / put / delete / patch
App_route(a, method, path, nh) ==
  LET r == AddRoute(a.routes, method, path, Handlers(nh), Len(a.heap) + 1) IN
  IF ~r.ok THEN [a EXCEPT !.rejected = Append(@, [ctx |-> 0, path |-> path])]
  ELSE [a EXCEPT !.routes = r.routes,
                 !.heap = Append(@, <<>>),
                 !.routeLog = Append(@, [ctx |-> 0, stack |-> <<>>, path |-> path,
                                         uses |-> Len(a.fnOwner)])]

\* App.group: the callback receives the new context
App_group(a, prefix) ==
  LET c == CreateGroupContext(a.heap, prefix, 0) IN
  [a EXCEPT !.ctxs = Append(@, c.ctx),
            !.heap = c.heap,
            !.ctxLog = Append(@, [parent |-> 0, inherited |-> <<>>,
                                  prefix |-> prefix])]

\* groupContext.use
Ctx_use(a, g) ==
  [a EXCEPT !.heap = GroupUse(@, a.ctxs[g].groupMiddleware, Len(a.fnOwner) + 1),
            !.fnOwner = Append(@, g)]

\* groupContext.get / post / put / delete / patch
Ctx_route(a, g, method, path, nh) ==
  LET fullPath == a.ctxs[g].cleanPrefix \o path
      r == AddRoute(a.routes, method, fullPath, Handlers(nh), Len(a.heap) + 1)
      m == AddGroupMiddlewareToRoute(r.routes, Append(a.heap, <<>>),
                                     a.ctxs[g].groupMiddleware)
  IN
  IF ~r.ok THEN [a EXCEPT !.rejected = Append(@, [ctx |-> g, path |-> path])]
  ELSE [a EXCEPT !.routes = m.routes,
                 !.heap = m.heap,
                 !.routeLog = Append(@, [ctx |-> g, stack |-> ExpectedStack(a, g),
                                         path |-> path, uses |-> Len(a.fnOwner)])]

\* a variant in which the nested context keeps the parent's array
Ctx_group_shared(a, g, nestedPrefix) ==
  LET stackedPrefix == a.ctxs[g].cleanPrefix \o nestedPrefix IN
  [a EXCEPT !.ctxs = Append(@, [cleanPrefix |-> CleanPrefix(stackedPrefix),
                                groupMiddleware |-> a.ctxs[g].groupMiddleware]),
            !.ctxLog = Append(@, [parent |-> g, inherited |-> ExpectedStack(a, g),
                                  prefix |-> nestedPrefix])]

\* a variant in which the nested prefix is not stacked on the parent's
Ctx_group_unstacked(a, g, nestedPrefix) ==
  LET c == CreateGroupContext(a.heap, nestedPrefix, a.ctxs[g].groupMiddleware) IN
  [a EXCEPT !.ctxs = Append(@, c.ctx),
            !.heap = c.heap,
            !.ctxLog = Append(@, [parent |-> g, inherited |-> ExpectedStack(a, g),
                                  prefix |-> nestedPrefix])]

\* groupContext.group
Ctx_group(a, g, nestedPrefix) ==
  LET stackedPrefix == a.ctxs[g].cleanPrefix \o nestedPrefix
      c == CreateGroupContext(a.heap, stackedPrefix, a.ctxs[g].groupMiddleware)
  IN
  [a EXCEPT !.ctxs = Append(@, c.ctx),
            !.heap = c.heap,
            !.ctxLog = Append(@, [parent |-> g, inherited |-> ExpectedStack(a, g),
                                  prefix |-> nestedPrefix])]

\* The application's state, and the registration calls as actions on it.

App ==
  [routes |-> routes, middleware |-> middleware, heap |-> heap, ctxs |-> ctxs,
   fnOwner |-> fnOwner, routeLog |-> routeLog, ctxLog |-> ctxLog,
   rejected |-> rejected]

AppIs(a) ==
  /\ routes = a.routes
  /\ middleware = a.middleware
  /\ heap = a.heap
  /\ ctxs = a.ctxs
  /\ fnOwner = a.fnOwner
  /\ routeLog = a.routeLog
  /\ ctxLog = a.ctxLog
  /\ rejected = a.rejected
  /\ cors = NoCors

AppBecomes(a) ==
  /\ routes' = a.routes
  /\ middleware' = a.middleware
  /\ heap' = a.heap
  /\ ctxs' = a.ctxs
  /\ fnOwner' = a.fnOwner
  /\ routeLog' = a.routeLog
  /\ ctxLog' = a.ctxLog
  /\ rejected' = a.rejected
  /\ cors' = cors

AppUse ==
  /\ Len(fnOwner) < MaxUse
  /\ AppBecomes(App_use(App))

AppRoute(method, path, nh) ==
  /\ Len(routes) < MaxRoutes
  /\ AppBecomes(App_route(App, method, path, nh))

AppGroup(prefix) ==
  /\ Len(ctxs) < MaxCtxs
  /\ AppBecomes(App_group(App, prefix))

CtxUse(g) ==
  /\ Len(fnOwner) < MaxUse
  /\ AppBecomes(Ctx_use(App, g))

CtxRoute(g, method, path, nh) ==
  /\ Len(routes) < MaxRoutes
  /\ AppBecomes(Ctx_route(App, g, method, path, nh))

CtxGroup(g, nestedPrefix) ==
  /\ Len(ctxs) < MaxCtxs
  /\ AppBecomes(Ctx_group(App, g, nestedPrefix))

\* _handleRequest: [...this.middleware, ...(match.middleware || [])]
MiddlewareStack_groupFirst(globals, routeMiddleware) ==
  routeMiddleware \o globals

\* a variant that runs only what the route captured at its registration
MiddlewareStack_captured(globals, routeMiddleware) == routeMiddleware

MiddlewareStack(globals, routeMiddleware) == globals \o routeMiddleware

----------------------------------------------------------------------------
(* Response: the wrapper's _sent flag and the ServerResponse under it.     *)

NoBody == [keys |-> {}, error |-> "", message |-> "", path |-> <<>>, method |-> ""]
NoWire == [status |-> 0, contentType |-> "", body |-> NoBody]

\* new Response(res): nothing sent, Node's default status
NewResponse ==
  [sent |-> FALSE, statusCode |-> 200, contentType |-> "", ended |-> 0,
   wire |-> NoWire]

\* Response.status
ResStatus(res, code) == [res EXCEPT !.statusCode = code]

\* ServerResponse.end: the first call puts the response on the wire
ResEndStream(res, body) ==
  [res EXCEPT !.ended = @ + 1,
              !.wire = IF res.ended = 0
                       THEN [status |-> res.statusCode,
                             contentType |-> res.contentType,
                             body |-> body]
                       ELSE @]

\* JSON.stringify: a property whose value is undefined is left out
JsonStringify(data) ==
  [data EXCEPT !.keys = {k \in @ : ~(k = "message" /\ data.message = "undefined")}]

\* a variant without the _sent guard
ResJson_unguarded(res, data) ==
  [ResEndStream([res EXCEPT !.contentType = "application/json"],
                JsonStringify(data)) EXCEPT !.sent = TRUE]

\* Response.json
ResJson(res, data) ==
  IF res.sent THEN res
  ELSE [ResEndStream([res EXCEPT !.contentType = "application/json"],
                     JsonStringify(data)) EXCEPT !.sent = TRUE]

\* Response.send
ResSend(res, data) ==
  IF res.sent THEN res
  ELSE [ResEndStream([res EXCEPT !.contentType = "text/html"], data)
          EXCEPT !.sent = TRUE]

\* Response.end
ResEnd(res) ==
  IF res.sent THEN res
  ELSE [ResEndStream(res, NoBody) EXCEPT !.sent = TRUE]

\* what a middleware or handler sends with json(data) or send(data)
UserBody == [keys |-> {"data"}, error |-> "", message |-> "", path |-> <<>>, method |-> ""]

\* res.json / res.send / res.end called by user code
ResWrite(res, how) ==
  IF how = "json" THEN ResJson(res, UserBody)
  ELSE IF how = "send" THEN ResSend(res, UserBody)
  ELSE ResEnd(res)

----------------------------------------------------------------------------
(* Request and the state of one _handleRequest invocation.                 *)

\* the message property of a thrown value: an Error has one, a string or
\* null has none
ErrorMessage(v) ==
  IF v = "Error" THEN "boom"
  ELSE IF v = "InvalidJSON" THEN "Invalid JSON in request body"
  ELSE IF v = "TypeError" THEN "next is not a function"
  ELSE "undefined"

\* a header map without headers
NoHeaders == [n \in {} |-> ""]

\* new Request(req), new Response(res); pc "new": the request has not
\* arrived yet
NewRequest ==
  [pc |-> "new", method |-> "", path |-> <<>>, body |-> "", headers |-> NoHeaders,
   params |-> NoParams, route |-> 0, middlewareStack |-> <<>>,
   handlers |-> <<>>, index |-> 0, res |-> NewResponse,
   started |-> <<>>, writes |-> 0, first |-> NoWire, caught |-> "none"]

\* history: a call of json / send / end through the wrapper
Written(req, res2) ==
  [req EXCEPT !.res = res2,
              !.writes = @ + 1,
              !.first = IF req.writes = 0 THEN res2.wire ELSE @]

\* the 404 payload of _handleRequest
Body404(req) ==
  [keys |-> {"error", "message", "path", "method"}, error |-> "Not Found",
   message |-> "Cannot <method> <path>", path |-> req.path, method |-> req.method]

\* the 500 payload of _handleRequest
Body500(req, v) ==
  [keys |-> {"error", "message", "path", "method"},
   error |-> "Internal Server Error",
   message |-> ErrorMessage(v), path |-> req.path, method |-> req.method]

\* the catch block of _handleRequest; reading error.stack of null throws
\* inside the block
CatchThrows(v) == v = "null"

Catch(req, v) ==
  IF CatchThrows(v) THEN [req EXCEPT !.pc = "done", !.caught = v]
  ELSE IF ~req.res.sent
  THEN [Written(req, ResJson(ResStatus(req.res, 500), Body500(req, v)))
          EXCEPT !.pc = "done", !.caught = v]
  ELSE [req EXCEPT !.pc = "done", !.caught = v]

----------------------------------------------------------------------------
(* _executeMiddleware: activations.  An activation is one call of next     *)
(* together with the middleware it invokes (kind "mw"), or with             *)
(* finalHandler (kind "fin"), or one handler call (kind "h").  Its promise *)
(* settles "ok" or "err".                                                  *)

\* history: the number of use, group and (successful) route calls made so far
RegistrationCalls == Len(fnOwner) + Len(routes) + Len(ctxs)

NewAct(r, kind, i, par, awaited) ==
  [rq |-> r, kind |-> kind, i |-> i, par |-> par, awaited |-> awaited,
   st |-> "run", wait |-> 0, val |-> "none", calls |-> 0, returned |-> 0,
   wrote |-> FALSE, threw |-> "none", passed |-> "none"]

\* a variant of next without the check of res._sent
NextBranch_noSentCheck(req) ==
  IF req.index >= Len(req.middlewareStack) THEN "final" ELSE "middleware"

\* next(): return when sent, finalHandler when the stack is exhausted,
\* else the middleware at index
NextBranch(req) ==
  IF req.res.sent THEN "return"
  ELSE IF req.index >= Len(req.middlewareStack) THEN "final"
  ELSE "middleware"

\* a variant in which index is one counter for all requests
InvokeNext_sharedIndex(as, req, r, par, awaited) ==
  LET index == Cardinality({a \in 1..Len(as) : as[a].kind = "mw"})
      id == Len(as) + 1 IN
  IF req.res.sent THEN [acts |-> as, req |-> req, pushed |-> 0]
  ELSE IF index >= Len(req.middlewareStack)
  THEN [acts |-> Append(as, NewAct(r, "fin", 1, par, awaited)),
        req |-> req, pushed |-> id]
  ELSE [acts |-> Append(as, NewAct(r, "mw", index + 1, par, awaited)),
        req |-> [req EXCEPT !.index = index + 1,
                            !.started = Append(@,
                               [kind |-> "mw",
                                fn |-> req.middlewareStack[index + 1],
                                afterSent |-> req.res.sent,
                                params |-> req.params,
                                regs |-> RegistrationCalls])],
        pushed |-> id]

\* a variant that reads the application's arrays at every call
InvokeNext_liveStack(as, req, r, par, awaited) ==
  LET stack == MiddlewareStack(middleware, ArrayAt(heap, routes[req.route].middleware))
      id == Len(as) + 1 IN
  IF req.res.sent THEN [acts |-> as, req |-> req, pushed |-> 0]
  ELSE IF req.index >= Len(stack)
  THEN [acts |-> Append(as, NewAct(r, "fin", 1, par, awaited)),
        req |-> req, pushed |-> id]
  ELSE [acts |-> Append(as, NewAct(r, "mw", req.index + 1, par, awaited)),
        req |-> [req EXCEPT !.index = @ + 1,
                            !.started = Append(@,
                               [kind |-> "mw",
                                fn |-> stack[req.index + 1],
                                afterSent |-> req.res.sent,
                                params |-> req.params,
                                regs |-> RegistrationCalls])],
        pushed |-> id]

\* next() called by activation par (0: by _executeMiddleware) of request r
InvokeNext(as, req, r, par, awaited) ==
  LET br == NextBranch(req)
      id == Len(as) + 1 IN
  IF br = "return" THEN [acts |-> as, req |-> req, pushed |-> 0]
  ELSE IF br = "final"
  THEN [acts |-> Append(as, NewAct(r, "fin", 1, par, awaited)),
        req |-> req, pushed |-> id]
  ELSE [acts |-> Append(as, NewAct(r, "mw", req.index + 1, par, awaited)),
        req |-> [req EXCEPT !.index = @ + 1,
                            !.started = Append(@,
                               [kind |-> "mw",
                                fn |-> req.middlewareStack[req.index + 1],
                                afterSent |-> req.res.sent,
                                params |-> req.params,
                                regs |-> RegistrationCalls])],
        pushed |-> id]

\* finalHandler's loop at handler hi: break when sent
FinBranch(req, hi) ==
  IF hi > Len(req.handlers) THEN "end"
  ELSE IF req.res.sent THEN "break"
  ELSE "handler"

\* a promise settles: its state, who is told, and whether a rejection
\* has no handler
Settled(as, a, result, v) ==
  [as EXCEPT ![a].st = result, ![a].val = v, ![a].wait = 0]

Notified(mq, as, a) ==
  LET p == as[a].par IN
  IF p = 0 THEN Append(mq, 0 - as[a].rq)
  ELSE IF as[a].awaited /\ as[p].st = "await" /\ as[p].wait = a
  THEN Append(mq, p)
  ELSE mq

Unhandled(as, a, result) ==
  result = "err" /\ as[a].par # 0 /\ ~as[a].awaited

Top == callStack[Len(callStack)]
Pop(stk) == SubSeq(stk, 1, Len(stk) - 1)

\* activation a is running user code
Running(a) ==
  /\ Len(callStack) > 0
  /\ a = Top
  /\ acts[a].st = "run"
  /\ acts[a].wait = 0

\* no synchronous code and no microtask is left: the event loop takes the
\* next macrotask, unless an unhandled rejection has ended the process
MacrotaskTurn == callStack = <<>> /\ microtasks = <<>> /\ ~crashed

----------------------------------------------------------------------------
(* _handleRequest.                                                         *)

\* the 'request' event: wrappers are created, _parseBody is awaited
HandleRequest(r, method, path, body) ==
  /\ MacrotaskTurn
  /\ reqs[r].pc = "new"
  /\ reqs' = [reqs EXCEPT ![r] = [NewRequest EXCEPT !.pc = "parse",
                                                   !.method = method,
                                                   !.path = path,
                                                   !.body = body]]
  /\ UNCHANGED <<appVars, acts, callStack, microtasks, crashed, budget>>

\* the same event for a request whose headers matter: this.headers =
\* req.headers
HandleRequestWithHeaders(r, method, path, body, headers) ==
  /\ MacrotaskTurn
  /\ reqs[r].pc = "new"
  /\ reqs' = [reqs EXCEPT ![r] = [NewRequest EXCEPT !.pc = "parse",
                                                   !.method = method,
                                                   !.path = path,
                                                   !.body = body,
                                                   !.headers = headers]]
  /\ UNCHANGED <<appVars, acts, callStack, microtasks, crashed, budget>>

\* Request._parseBody: only a JSON body that does not parse rejects
ParseRejects(body) == body = "badjson"

\* a variant that leaves request.params as the constructor set it
InjectParams_none(req, m) == req

\* request.params = match.params
InjectParams(req, m) == [req EXCEPT !.params = m.params]

\* the 'end' event of the request stream settles _parseBody; then match,
\* the 404 answer or the start of the chain
ParseBodyEnd(r) ==
  LET req == reqs[r]
      m == Match(routes, req.method, req.path)
      hit == [InjectParams(req, m) EXCEPT
                         !.pc = "exec",
                         !.route = m.route,
                         !.middlewareStack =
                            MiddlewareStack(middleware,
                                            ArrayAt(heap, routes[m.route].middleware)),
                         !.handlers = routes[m.route].handlers]
      n == InvokeNext(acts, hit, r, 0, TRUE)
  IN
  /\ MacrotaskTurn
  /\ req.pc = "parse"
  /\ IF ParseRejects(req.body)
     THEN /\ reqs' = [reqs EXCEPT ![r] = Catch(req, "InvalidJSON")]
          /\ UNCHANGED <<acts, callStack>>
     ELSE IF m.route = 0
     THEN /\ reqs' = [reqs EXCEPT ![r] =
                        [Written(req, ResJson(ResStatus(req.res, 404), Body404(req)))
                           EXCEPT !.pc = "done"]]
          /\ UNCHANGED <<acts, callStack>>
     ELSE /\ reqs' = [reqs EXCEPT ![r] = n.req]
          /\ acts' = n.acts
          /\ callStack' = <<n.pushed>>
  /\ UNCHANGED <<appVars, microtasks, crashed, budget>>

\* a variant that answers 404 itself when the chain ended with nothing sent
ResumeRequest_fallback(r) ==
  LET root == CHOOSE a \in 1..Len(acts) : acts[a].rq = r /\ acts[a].par = 0 IN
  /\ callStack = <<>>
  /\ Len(microtasks) > 0
  /\ Head(microtasks) = 0 - r
  /\ microtasks' = Tail(microtasks)
  /\ IF acts[root].st = "ok"
     THEN /\ reqs' = [reqs EXCEPT ![r] =
                        IF reqs[r].res.sent THEN [reqs[r] EXCEPT !.pc = "done"]
                        ELSE [Written(reqs[r], ResJson(ResStatus(reqs[r].res, 404),
                                                       Body404(reqs[r])))
                                EXCEPT !.pc = "done"]]
          /\ UNCHANGED crashed
     ELSE /\ reqs' = [reqs EXCEPT ![r] = Catch(reqs[r], acts[root].val)]
          /\ crashed' = (crashed \/ CatchThrows(acts[root].val))
  /\ UNCHANGED <<appVars, acts, callStack, budget>>

\* _handleRequest continues after await _executeMiddleware: return, or the
\* catch block
ResumeRequest(r) ==
  LET root == CHOOSE a \in 1..Len(acts) : acts[a].rq = r /\ acts[a].par = 0 IN
  /\ callStack = <<>>
  /\ Len(microtasks) > 0
  /\ Head(microtasks) = 0 - r
  /\ microtasks' = Tail(microtasks)
  /\ IF acts[root].st = "ok"
     THEN /\ reqs' = [reqs EXCEPT ![r].pc = "done"]
          /\ UNCHANGED crashed
     ELSE /\ reqs' = [reqs EXCEPT ![r] = Catch(reqs[r], acts[root].val)]
          /\ crashed' = (crashed \/ CatchThrows(acts[root].val))
  /\ UNCHANGED <<appVars, acts, callStack, budget>>

----------------------------------------------------------------------------
(* What a middleware or a handler may do while it runs.                    *)

ThrowValues == {"Error", "null"}
WriteMethods == {"json", "end"}

\* res.json(...), res.send(...) or res.end()
UserWrite(a, how) ==
  LET r == acts[a].rq IN
  /\ Running(a)
  /\ acts[a].kind \in {"mw", "h"}
  /\ ~acts[a].wrote
  /\ acts' = [acts EXCEPT ![a].wrote = TRUE]
  /\ reqs' = [reqs EXCEPT ![r] = Written(reqs[r], ResWrite(reqs[r].res, how))]
  /\ UNCHANGED <<appVars, callStack, microtasks, crashed, budget>>

\* next(), with its promise awaited (await next(), return next()) or dropped
UserNext(a, awaited) ==
  LET r == acts[a].rq
      n == InvokeNext(acts, reqs[r], r, a, awaited)
  IN
  /\ Running(a)
  /\ acts[a].kind = "mw"
  /\ acts[a].calls = 0 \/ budget.next > 0
  /\ budget' = IF acts[a].calls = 0 THEN budget
               ELSE [budget EXCEPT !.next = @ - 1]
  /\ reqs' = [reqs EXCEPT ![r] = n.req]
  /\ IF n.pushed = 0
     THEN \* next returned at once: an awaiting caller resumes in a microtask
          /\ acts' = [acts EXCEPT ![a].calls = @ + 1,
                                  ![a].returned = @ + 1,
                                  ![a].st = IF awaited THEN "await" ELSE @]
          /\ callStack' = IF awaited THEN Pop(callStack) ELSE callStack
          /\ microtasks' = IF awaited THEN Append(microtasks, a) ELSE microtasks
     ELSE /\ acts' = [n.acts EXCEPT ![a].calls = @ + 1,
                                    ![a].wait = IF awaited THEN n.pushed ELSE 0]
          /\ callStack' = Append(callStack, n.pushed)
          /\ UNCHANGED microtasks
  /\ UNCHANGED <<appVars, crashed>>

\* next(err): next throws err, so its promise is rejected; an awaiting
\* caller rejects in turn, a dropped promise is an unhandled rejection
UserNextErr(a, awaited, v) ==
  /\ Running(a)
  /\ acts[a].kind = "mw"
  /\ acts[a].calls = 0
  /\ IF awaited
     THEN /\ acts' = Settled([acts EXCEPT ![a].calls = @ + 1, ![a].passed = v],
                          a, "err", v)
          /\ microtasks' = Notified(microtasks, acts, a)
          /\ callStack' = Pop(callStack)
          /\ crashed' = (crashed \/ Unhandled(acts, a, "err"))
     ELSE /\ acts' = [acts EXCEPT ![a].calls = @ + 1, ![a].passed = v]
          /\ crashed' = TRUE
          /\ UNCHANGED <<callStack, microtasks>>
  /\ UNCHANGED <<appVars, reqs, budget>>

\* await of something outside the chain (a timer, I/O), explored for
\* handlers; the middleware explored here await nothing but next()
UserSuspend(a) ==
  /\ Running(a)
  /\ acts[a].kind = "h"
  /\ budget.suspend > 0
  /\ budget' = [budget EXCEPT !.suspend = @ - 1]
  /\ acts' = [acts EXCEPT ![a].st = "timer"]
  /\ callStack' = Pop(callStack)
  /\ UNCHANGED <<appVars, reqs, microtasks, crashed>>

\* the function returns: its promise is fulfilled
UserReturn(a) ==
  /\ Running(a)
  /\ acts[a].kind \in {"mw", "h"}
  /\ acts' = Settled(acts, a, "ok", "none")
  /\ microtasks' = Notified(microtasks, acts, a)
  /\ callStack' = Pop(callStack)
  /\ UNCHANGED <<appVars, reqs, crashed, budget>>

\* the function throws v (or its promise is rejected with v)
UserThrow(a, v) ==
  /\ Running(a)
  /\ acts[a].kind \in {"mw", "h"}
  /\ acts' = Settled([acts EXCEPT ![a].threw = v], a, "err", v)
  /\ microtasks' = Notified(microtasks, acts, a)
  /\ callStack' = Pop(callStack)
  /\ crashed' = (crashed \/ Unhandled(acts, a, "err"))
  /\ UNCHANGED <<appVars, reqs, budget>>

\* a function written as middleware, (req, res, next), registered before
\* the last handler of a route: finalHandler calls handler(request,
\* response), so next is undefined and the call next() throws a TypeError
HandlerCallsNext(a) ==
  /\ Running(a)
  /\ acts[a].kind = "h"
  /\ acts[a].i < Len(reqs[acts[a].rq].handlers)
  /\ acts[a].calls = 0
  /\ acts' = Settled([acts EXCEPT ![a].calls = 1, ![a].threw = "TypeError"],
                     a, "err", "TypeError")
  /\ microtasks' = Notified(microtasks, acts, a)
  /\ callStack' = Pop(callStack)
  /\ crashed' = (crashed \/ Unhandled(acts, a, "err"))
  /\ UNCHANGED <<appVars, reqs, budget>>

----------------------------------------------------------------------------
(* The run-time: awaits, microtasks, timers, finalHandler's loop.          *)

\* a variant in which the awaiting function is resumed at once
Await_noWait(a) ==
  /\ Len(callStack) > 0
  /\ a = Top
  /\ acts[a].st = "run"
  /\ acts[a].wait # 0
  /\ acts' = [acts EXCEPT ![a].st = "await"]
  /\ callStack' = Pop(callStack)
  /\ microtasks' = Append(microtasks, a)
  /\ UNCHANGED <<appVars, reqs, crashed, budget>>

\* the call made by a has returned a promise and a awaits it
Await(a) ==
  /\ Len(callStack) > 0
  /\ a = Top
  /\ acts[a].st = "run"
  /\ acts[a].wait # 0
  /\ acts' = [acts EXCEPT ![a].st = "await"]
  /\ callStack' = Pop(callStack)
  /\ microtasks' = IF acts[acts[a].wait].st \in {"ok", "err"}
                   THEN Append(microtasks, a) ELSE microtasks
  /\ UNCHANGED <<appVars, reqs, crashed, budget>>

\* a continues after the promise it awaited has settled; a rejection is
\* rethrown in a, which rejects in turn
Resume(a) ==
  LET c == acts[a].wait
      failed == c # 0 /\ acts[c].st = "err"
  IN
  /\ callStack = <<>>
  /\ Len(microtasks) > 0
  /\ Head(microtasks) = a
  /\ a > 0
  /\ IF failed
     THEN /\ acts' = Settled(acts, a, "err", acts[c].val)
          /\ microtasks' = Notified(Tail(microtasks), acts, a)
          /\ crashed' = (crashed \/ Unhandled(acts, a, "err"))
          /\ UNCHANGED callStack
     ELSE /\ acts' = [acts EXCEPT ![a].st = "run", ![a].wait = 0,
                                  ![a].i = IF acts[a].kind = "fin" THEN @ + 1 ELSE @]
          /\ microtasks' = Tail(microtasks)
          /\ callStack' = <<a>>
          /\ UNCHANGED crashed
  /\ UNCHANGED <<appVars, reqs, budget>>

\* the timer or I/O a waits for completes
Timer(a) ==
  /\ MacrotaskTurn
  /\ acts[a].st = "timer"
  /\ acts' = [acts EXCEPT ![a].st = "run"]
  /\ callStack' = <<a>>
  /\ UNCHANGED <<appVars, reqs, microtasks, crashed, budget>>

\* a variant that calls the handlers without awaiting them
FinalHandlerStep_noAwait(a) ==
  LET r == acts[a].rq
      br == FinBranch(reqs[r], acts[a].i)
      id == Len(acts) + 1
  IN
  /\ Running(a)
  /\ acts[a].kind = "fin"
  /\ IF br = "handler"
     THEN /\ acts' = Append([acts EXCEPT ![a].i = @ + 1],
                            NewAct(r, "h", acts[a].i, a, FALSE))
          /\ callStack' = Append(callStack, id)
          /\ reqs' = [reqs EXCEPT ![r].started =
                        Append(@, [kind |-> "h", fn |-> acts[a].i,
                                   afterSent |-> reqs[r].res.sent,
                                   params |-> reqs[r].params,
                                   regs |-> RegistrationCalls])]
          /\ UNCHANGED <<microtasks, crashed>>
     ELSE /\ acts' = Settled(acts, a, "ok", "none")
          /\ microtasks' = Notified(microtasks, acts, a)
          /\ callStack' = Pop(callStack)
          /\ crashed' = crashed
          /\ UNCHANGED reqs
  /\ UNCHANGED <<appVars, budget>>

\* finalHandler: for (handler of match.handlers) { if (sent) break;
\* await handler(request, response) }
FinalHandlerStep(a) ==
  LET r == acts[a].rq
      br == FinBranch(reqs[r], acts[a].i)
      id == Len(acts) + 1
  IN
  /\ Running(a)
  /\ acts[a].kind = "fin"
  /\ IF br = "handler"
     THEN /\ acts' = Append([acts EXCEPT ![a].wait = id],
                            NewAct(r, "h", acts[a].i, a, TRUE))
          /\ callStack' = Append(callStack, id)
          /\ reqs' = [reqs EXCEPT ![r].started =
                        Append(@, [kind |-> "h", fn |-> acts[a].i,
                                   afterSent |-> reqs[r].res.sent,
                                   params |-> reqs[r].params,
                                   regs |-> RegistrationCalls])]
          /\ UNCHANGED <<microtasks, crashed>>
     ELSE /\ acts' = Settled(acts, a, "ok", "none")
          /\ microtasks' = Notified(microtasks, acts, a)
          /\ callStack' = Pop(callStack)
          /\ crashed' = crashed
          /\ UNCHANGED reqs
  /\ UNCHANGED <<appVars, budget>>

----------------------------------------------------------------------------
(* middleware/cors.js.  `undefined` is the string "undefined"; a header    *)
(* map is a function from the names of the headers that are set.  The      *)
(* response given to a middleware is the Response wrapper: setHeader and   *)
(* end go to the ServerResponse under it, an assignment to a property the  *)
(* class does not define stays on the wrapper object.                      *)

Undefined == "undefined"

\* a header is present and its value is not the empty string
Truthy(headers, name) == name \in DOMAIN headers /\ headers[name] # ""

\* an origin option: a boolean (flag), or a string, an array of strings or
\* a function, given by the strings it is, holds or accepts (list)
OriginOption(kind, flag, list) == [kind |-> kind, flag |-> flag, list |-> list]

DEFAULT_OPTIONS ==
  [origin |-> OriginOption("boolean", TRUE, <<>>),
   methods |-> "GET,POST,PUT,DELETE,PATCH,OPTIONS",
   allowedHeaders |-> Undefined,
   exposedHeaders |-> Undefined,
   credentials |-> FALSE,
   maxAge |-> Undefined,
   optionsSuccessStatus |-> 204]

\* { ...DEFAULT_OPTIONS, ...options }: options is a function from the keys
\* the caller gave
MergedOptions(options) ==
  [k \in DOMAIN DEFAULT_OPTIONS |->
     IF k \in DOMAIN options THEN options[k] ELSE DEFAULT_OPTIONS[k]]

\* options.origin === true || options.origin === '*'
AllowsAll(configOrigin) ==
  \/ configOrigin.kind = "boolean" /\ configOrigin.flag
  \/ configOrigin.kind = "string" /\ configOrigin.list = <<"*">>

isOriginAllowed(requestOrigin, configOrigin) ==
  IF configOrigin.kind = "boolean" THEN configOrigin.flag
  ELSE IF configOrigin.kind = "string" /\ configOrigin.list = <<"*">> THEN TRUE
  ELSE IF configOrigin.kind = "string" THEN configOrigin.list = <<requestOrigin>>
  ELSE IF configOrigin.kind = "array"
  THEN \E k \in 1..Len(configOrigin.list) : configOrigin.list[k] = requestOrigin
  ELSE IF configOrigin.kind = "function"
  THEN \E k \in 1..Len(configOrigin.list) : configOrigin.list[k] = requestOrigin
  ELSE FALSE

\* the response handed to the middleware: the wrapper's state, the headers
\* of the ServerResponse, and the properties assigned on the wrapper itself
NewCorsResponse == [wrapper |-> NewResponse, headers |-> NoHeaders, props |-> NoHeaders]

\* Response.setHeader
ResSetHeader(res, key, value) == [res EXCEPT !.headers = (key :> value) @@ @]

\* res.statusCode = code, on an object of class Response
ResAssignStatusCode(res, code) == [res EXCEPT !.props = ("statusCode" :> code) @@ @]

\* a variant that answers with "*" whatever credentials says
setOriginHeader_wildcard(res, req, options) ==
  IF ~Truthy(req.headers, "origin") THEN res
  ELSE IF ~isOriginAllowed(req.headers["origin"], options.origin) THEN res
  ELSE IF AllowsAll(options.origin)
  THEN ResSetHeader(res, "Access-Control-Allow-Origin", "*")
  ELSE ResSetHeader(ResSetHeader(res, "Access-Control-Allow-Origin",
                                 req.headers["origin"]), "Vary", "Origin")

setOriginHeader(res, req, options) ==
  IF ~Truthy(req.headers, "origin") THEN res
  ELSE IF ~isOriginAllowed(req.headers["origin"], options.origin) THEN res
  ELSE IF options.credentials
  THEN ResSetHeader(ResSetHeader(res, "Access-Control-Allow-Origin",
                                 req.headers["origin"]), "Vary", "Origin")
  ELSE IF AllowsAll(options.origin)
  THEN ResSetHeader(res, "Access-Control-Allow-Origin", "*")
  ELSE ResSetHeader(ResSetHeader(res, "Access-Control-Allow-Origin",
                                 req.headers["origin"]), "Vary", "Origin")

setMethodsHeader(res, options) ==
  ResSetHeader(res, "Access-Control-Allow-Methods",
               IF options.methods # Undefined THEN options.methods
               ELSE DEFAULT_OPTIONS.methods)

setAllowedHeadersHeader(res, req, options) ==
  LET headers == IF options.allowedHeaders # Undefined THEN options.allowedHeaders
                 ELSE IF "access-control-request-headers" \in DOMAIN req.headers
                 THEN req.headers["access-control-request-headers"]
                 ELSE "" IN
  IF headers # "" THEN ResSetHeader(res, "Access-Control-Allow-Headers", headers)
  ELSE res

setExposedHeadersHeader(res, options) ==
  IF options.exposedHeaders # Undefined
  THEN ResSetHeader(res, "Access-Control-Expose-Headers", options.exposedHeaders)
  ELSE res

setCredentialsHeader(res, options) ==
  IF options.credentials = TRUE
  THEN ResSetHeader(res, "Access-Control-Allow-Credentials", "true")
  ELSE res

setMaxAgeHeader(res, options) ==
  IF options.maxAge # Undefined
  THEN ResSetHeader(res, "Access-Control-Max-Age", options.maxAge)
  ELSE res

isPreflight(req) ==
  req.method = "OPTIONS" /\ Truthy(req.headers, "access-control-request-method")

\* options.optionsSuccessStatus || 204
OptionsSuccessStatus(options) ==
  IF options.optionsSuccessStatus = 0 THEN 204
  ELSE options.optionsSuccessStatus

\* handlePreflight: the headers, res.statusCode = ..., res.end()
handlePreflight(req, res, options) ==
  LET h == setMaxAgeHeader(
             setCredentialsHeader(
               setAllowedHeadersHeader(
                 setMethodsHeader(setOriginHeader(res, req, options), options),
                 req, options),
               options),
             options)
      s == ResAssignStatusCode(h, OptionsSuccessStatus(options))
  IN [s EXCEPT !.wrapper = ResEnd(@)]

\* corsMiddleware(req, res, next): the response afterwards and the number
\* of calls of next
corsMiddleware(options, req, res) ==
  IF ~Truthy(req.headers, "origin") THEN [res |-> res, nextCalls |-> 1]
  ELSE IF ~isOriginAllowed(req.headers["origin"], options.origin)
  THEN [res |-> res, nextCalls |-> 1]
  ELSE IF isPreflight(req)
  THEN [res |-> handlePreflight(req, res, options), nextCalls |-> 0]
  ELSE [res |-> setExposedHeadersHeader(
                  setCredentialsHeader(setOriginHeader(res, req, options), options),
                  options),
        nextCalls |-> 1]

\* cors(options): the options are merged and the middleware is returned
Cors(options) ==
  /\ cors.pc = "none"
  /\ cors' = [pc |-> "made", options |-> MergedOptions(options)]
  /\ UNCHANGED <<routes, middleware, heap, ctxs, fnOwner, routeLog, ctxLog, rejected,
                 runVars>>

\* one invocation of the middleware, by _executeMiddleware
CorsMiddleware(req) ==
  LET out == corsMiddleware(cors.options, req, NewCorsResponse) IN
  /\ cors.pc = "made"
  /\ cors' = [pc |-> "invoked", options |-> cors.options, req |-> req,
              res |-> out.res, nextCalls |-> out.nextCalls]
  /\ UNCHANGED <<routes, middleware, heap, ctxs, fnOwner, routeLog, ctxLog, rejected,
                 runVars>>

\* the middleware made by cors(options), registered with app.use, is
\* invoked by next() as activation a.  It is a plain function: it runs to
\* its end in one piece, up to the call of next; `return next()` hands the
\* promise of next to the caller, `next()` in the last branch drops it.
CorsInvoke(a) ==
  LET r == acts[a].rq
      req == reqs[r]
      creq == [method |-> req.method, headers |-> req.headers]
      out == corsMiddleware(cors.options, creq,
                            [NewCorsResponse EXCEPT !.wrapper = req.res])
      returned == \/ ~Truthy(creq.headers, "origin")
                  \/ ~isOriginAllowed(creq.headers["origin"], cors.options.origin)
      n == InvokeNext(acts, req, r, a, returned)
  IN
  /\ Running(a)
  /\ acts[a].kind = "mw"
  /\ acts[a].calls = 0
  /\ cors.pc = "made"
  /\ req.middlewareStack[acts[a].i] = cors.fn
  /\ cors' = [pc |-> "invoked", options |-> cors.options, fn |-> cors.fn,
              req |-> creq, res |-> out.res, nextCalls |-> out.nextCalls]
  /\ IF out.nextCalls = 0
     THEN \* handlePreflight ended the response; the function returns
          /\ reqs' = [reqs EXCEPT ![r] = Written(req, out.res.wrapper)]
          /\ acts' = Settled([acts EXCEPT ![a].wrote = TRUE], a, "ok", "none")
          /\ microtasks' = Notified(microtasks, acts, a)
          /\ callStack' = Pop(callStack)
     ELSE IF n.pushed = 0
     THEN /\ reqs' = [reqs EXCEPT ![r] = n.req]
          /\ acts' = [acts EXCEPT ![a].calls = @ + 1,
                                  ![a].returned = @ + 1,
                                  ![a].st = IF returned THEN "await" ELSE @]
          /\ callStack' = IF returned THEN Pop(callStack) ELSE callStack
          /\ microtasks' = IF returned THEN Append(microtasks, a) ELSE microtasks
     ELSE /\ reqs' = [reqs EXCEPT ![r] = n.req]
          /\ acts' = [n.acts EXCEPT ![a].calls = @ + 1,
                                    ![a].wait = IF returned THEN n.pushed ELSE 0]
          /\ callStack' = Append(callStack, n.pushed)
          /\ UNCHANGED microtasks
  /\ UNCHANGED <<routes, middleware, heap, ctxs, fnOwner, routeLog, ctxLog, rejected,
                 crashed, budget>>

\* the middleware returns after its call of next
CorsReturn(a) ==
  /\ cors.pc = "invoked"
  /\ acts[a].kind = "mw"
  /\ acts[a].calls = 1
  /\ UserReturn(a)

----------------------------------------------------------------------------
(* The inputs of the exploration.                                          *)

P_root == <<"/">>
P_u == <<"/", "u">>
P_U == <<"/", "U">>
P_i == <<"/", ":", "i">>
P_ui == <<"/", "u", "/", ":", "i">>
P_ij == <<"/", ":", "i", "/", ":", "j">>
P_ii == <<"/", ":", "i", "/", ":", "i">>
P_ua == <<"/", "u", "/", "a">>
P_au == <<"/", "a", "/", "u">>
P_uas == <<"/", "u", "/", "a", "/">>
P_uaa == <<"/", "u", "/", "a", "/", "a">>
P_a == <<"/", "a">>
P_b == <<"/", "b">>
P_c == <<"/", "c">>
P_bs == <<"b", "/">>
P_abcu == <<"/", "a", "/", "b", "/", "c", "/", "u">>
P_empty == <<>>
P_ass == <<"/", "a", "/", "/">>
P_aau == <<"/", "a", "/", "a", "/", "u">>
P_colon == <<"/", ":">>
P_ucolon == <<"/", "u", "/", ":">>

\* the methods App registers: get, post, put, delete, patch
HttpMethods == {"GET", "POST", "PUT", "DELETE", "PATCH"}
RegMethods == {"GET", "POST"}
RoutePatterns == {P_u, P_i, P_ui, P_ij, P_ii}
ReqMethods == {"GET", "get", "POST", "PUT"}
ReqPaths == {P_root, P_u, P_U, P_ua, P_au, P_uas, P_uaa}
RegPrefixes == {<<"/", "a">>}

----------------------------------------------------------------------------
(* Initial state: new App(), no request yet.                               *)

InitApp == AppIs(NewApp)

InitNoRun ==
  /\ reqs = <<>>
  /\ acts = <<>>
  /\ callStack = <<>>
  /\ microtasks = <<>>
  /\ crashed = FALSE
  /\ budget = [next |-> 0, suspend |-> 0]

----------------------------------------------------------------------------
(* SpecMatch: routes registered on the application, resolved by            *)
(* Router.match for every request method and path.                         *)

InitMatch == InitApp /\ InitNoRun

NextMatch ==
  \E m \in RegMethods, p \in RoutePatterns, nh \in 1..MaxHandlers :
    AppRoute(m, p, nh) /\ UNCHANGED runVars

SpecMatch == InitMatch /\ [][NextMatch]_vars

----------------------------------------------------------------------------
(* SpecReg: the registration surface of the application and of its group   *)
(* contexts, in every order; a context stays usable for as long as user    *)
(* code holds it.                                                          *)

InitReg == InitApp /\ InitNoRun

NextReg ==
  /\ UNCHANGED runVars
  /\ \/ AppUse
     \/ AppRoute("GET", P_u, 1)
     \/ \E prefix \in RegPrefixes : AppGroup(prefix)
     \/ \E g \in 1..Len(ctxs) : CtxUse(g)
     \/ \E g \in 1..Len(ctxs) : CtxRoute(g, "GET", P_u, 1)
     \/ \E g \in 1..Len(ctxs), prefix \in RegPrefixes : CtxGroup(g, prefix)

SpecReg == InitReg /\ [][NextReg]_vars

----------------------------------------------------------------------------
(* Groups nested up to MaxNest contexts, with prefixes that are and are    *)
(* not in normal form (no leading slash, one or two trailing slashes,      *)
(* empty, the root), and routes registered through them.                   *)

PrefixInputs == {P_a, P_b, P_c, P_bs, P_empty, P_root, P_ass}

InitPrefix == InitApp /\ InitNoRun

NextPrefix ==
  /\ UNCHANGED runVars
  /\ \/ \E prefix \in PrefixInputs :
          Len(ctxs) < MaxNest /\ AppBecomes(App_group(App, prefix))
     \/ \E g \in 1..Len(ctxs), prefix \in PrefixInputs :
          Len(ctxs) < MaxNest /\ AppBecomes(Ctx_group(App, g, prefix))
     \/ \E g \in 1..Len(ctxs) :
          Len(routes) < MaxRoutes /\ AppBecomes(Ctx_route(App, g, "GET", P_u, 1))

SpecPrefix == InitPrefix /\ [][NextPrefix]_vars

----------------------------------------------------------------------------
(* Serving: an application registered as in examples/basic-server.js       *)
(* (global middleware, a route of the application, a group, a nested       *)
(* group with a route), then requests.                                     *)

RECURSIVE UseTimes(_, _)
UseTimes(a, n) == IF n = 0 THEN a ELSE UseTimes(App_use(a), n - 1)

RECURSIVE CtxUseTimes(_, _, _)
CtxUseTimes(a, g, n) == IF n = 0 THEN a ELSE CtxUseTimes(Ctx_use(a, g), g, n - 1)

\* app.post('/u/:i', h); app.use x ng; app.group('/a', api => { api.use x na;
\* api.group('/a', v => { v.use x nb; v.get('/u', h1..hnh) }) })
RegisteredApp(ng, na, nb, nh) ==
  LET a1 == UseTimes(App_route(NewApp, "POST", P_ui, 1), ng)
      a2 == CtxUseTimes(App_group(a1, P_a), 1, na)
      a3 == CtxUseTimes(Ctx_group(a2, 1, P_a), 2, nb)
  IN Ctx_route(a3, 2, "GET", P_u, nh)

\* at most MaxLevelUse middleware at each level, at most MaxChain functions
\* in the chain of the grouped route
RegisteredApps ==
  {RegisteredApp(x[1], x[2], x[3], x[4]) :
     x \in {y \in (0..MaxLevelUse) \X (0..MaxLevelUse) \X (0..MaxLevelUse)
                    \X (1..MaxHandlers) :
              y[1] + y[2] + y[3] + y[4] <= MaxChain}}

RunMethods == {"GET", "POST"}
RunPaths == {P_ua, P_aau}
Bodies == {"empty", "badjson"}

Init ==
  /\ \E a \in RegisteredApps : AppIs(a)
  /\ reqs = [r \in 1..MaxRequests |-> NewRequest]
  /\ acts = <<>>
  /\ callStack = <<>>
  /\ microtasks = <<>>
  /\ crashed = FALSE
  /\ budget = [next |-> MaxExtraNext, suspend |-> MaxSuspend]

Next ==
  \/ \E r \in DOMAIN reqs, method \in RunMethods, path \in RunPaths, body \in Bodies :
       HandleRequest(r, method, path, body)
  \/ \E r \in DOMAIN reqs : ParseBodyEnd(r)
  \/ \E r \in DOMAIN reqs : ResumeRequest(r)
  \/ \E a \in 1..Len(acts), how \in WriteMethods : UserWrite(a, how)
  \/ \E a \in 1..Len(acts), awaited \in BOOLEAN : UserNext(a, awaited)
  \/ \E a \in 1..Len(acts), awaited \in BOOLEAN, v \in ThrowValues \ {"null"} :
       UserNextErr(a, awaited, v)
  \/ \E a \in 1..Len(acts) : UserSuspend(a)
  \/ \E a \in 1..Len(acts) : UserReturn(a)
  \/ \E a \in 1..Len(acts), v \in ThrowValues : UserThrow(a, v)
  \/ \E a \in 1..Len(acts) : HandlerCallsNext(a)
  \/ \E a \in 1..Len(acts) : Await(a)
  \/ \E a \in 1..Len(acts) : Resume(a)
  \/ \E a \in 1..Len(acts) : Timer(a)
  \/ \E a \in 1..Len(acts) : FinalHandlerStep(a)

Spec == Init /\ [][Next]_vars

----------------------------------------------------------------------------
(* Several requests in flight: one global middleware, the route of the     *)
(* application and a grouped route with two handlers; a handler may wait  *)
(* for a timer, so the chains interleave; no second call of next.          *)

InitInFlight ==
  /\ AppIs(RegisteredApp(1, 0, 0, 2))
  /\ reqs = [r \in 1..MaxInFlight |-> NewRequest]
  /\ acts = <<>>
  /\ callStack = <<>>
  /\ microtasks = <<>>
  /\ crashed = FALSE
  /\ budget = [next |-> 0, suspend |-> MaxSuspend]

SpecInFlight == InitInFlight /\ [][Next]_vars

----------------------------------------------------------------------------
(* SpecLive: one request to the application of SpecInFlight, with the      *)
(* scheduling of the run-time: the event loop runs every microtask and     *)
(* every macrotask that is ready, the body stream ends, and every function *)
(* that runs takes its next step.  The arrival of the request is not       *)
(* forced.                                                                 *)

InitLive ==
  /\ AppIs(RegisteredApp(1, 0, 0, 2))
  /\ reqs = [r \in 1..MaxRequests |-> NewRequest]
  /\ acts = <<>>
  /\ callStack = <<>>
  /\ microtasks = <<>>
  /\ crashed = FALSE
  /\ budget = [next |-> 0, suspend |-> MaxSuspend]

\* every step but the arrival of a request
Progress ==
  \/ \E r \in DOMAIN reqs : ParseBodyEnd(r)
  \/ \E r \in DOMAIN reqs : ResumeRequest(r)
  \/ \E a \in 1..Len(acts), how \in WriteMethods : UserWrite(a, how)
  \/ \E a \in 1..Len(acts), awaited \in BOOLEAN : UserNext(a, awaited)
  \/ \E a \in 1..Len(acts), awaited \in BOOLEAN, v \in ThrowValues \ {"null"} :
       UserNextErr(a, awaited, v)
  \/ \E a \in 1..Len(acts) : UserSuspend(a)
  \/ \E a \in 1..Len(acts) : UserReturn(a)
  \/ \E a \in 1..Len(acts), v \in ThrowValues : UserThrow(a, v)
  \/ \E a \in 1..Len(acts) : HandlerCallsNext(a)
  \/ \E a \in 1..Len(acts) : Await(a)
  \/ \E a \in 1..Len(acts) : Resume(a)
  \/ \E a \in 1..Len(acts) : Timer(a)
  \/ \E a \in 1..Len(acts) : FinalHandlerStep(a)

SpecLive == InitLive /\ [][Next]_vars /\ WF_vars(Progress)

----------------------------------------------------------------------------
(* SpecThrow: as SpecLive without the scheduling, and user code may also   *)
(* throw a value that is not an object (throw 'text').                     *)

NonErrorValues == {"string"}

InitThrow ==
  /\ AppIs(RegisteredApp(1, 0, 0, 2))
  /\ reqs = [r \in 1..MaxRequests |-> NewRequest]
  /\ acts = <<>>
  /\ callStack = <<>>
  /\ microtasks = <<>>
  /\ crashed = FALSE
  /\ budget = [next |-> 0, suspend |-> MaxSuspend]

NextThrow ==
  \/ Next
  \/ \E a \in 1..Len(acts), v \in NonErrorValues : UserThrow(a, v)

SpecThrow == InitThrow /\ [][NextThrow]_vars

----------------------------------------------------------------------------
(* SpecCors: cors(options) for the forms of every option, then one         *)
(* invocation of the middleware for the forms of a request.                *)

O_a == "https://a.example"
O_b == "https://b.example"

OriginConfigs ==
  {OriginOption("boolean", TRUE, <<>>), OriginOption("boolean", FALSE, <<>>),
   OriginOption("string", FALSE, <<"*">>), OriginOption("string", FALSE, <<O_a>>),
   OriginOption("array", FALSE, <<O_a>>), OriginOption("array", FALSE, <<O_b, O_a>>),
   OriginOption("function", FALSE, <<O_a>>), OriginOption("function", FALSE, <<>>)}

\* the values of the options the caller may give
CorsOptionValues ==
  [origin : OriginConfigs,
   credentials : BOOLEAN,
   allowedHeaders : {"X-A"},
   exposedHeaders : {"X-E"},
   maxAge : {"600"},
   optionsSuccessStatus : {200, 0}]

CorsOptionKeys ==
  {"origin", "credentials", "allowedHeaders", "exposedHeaders", "maxAge",
   "optionsSuccessStatus"}

\* the option objects given to cors(): each key is given or left out
CorsOptions ==
  {[k \in given |-> v[k]] : given \in SUBSET CorsOptionKeys, v \in CorsOptionValues}

\* the headers of a request that the middleware reads
CorsHeaderValues ==
  [origin : {O_a, O_b, ""},
   m : {"POST", ""},
   h : {"X-R"}]

CorsHeaderNames ==
  [origin |-> "origin", m |-> "access-control-request-method",
   h |-> "access-control-request-headers"]

CorsRequests ==
  {[method |-> method,
    headers |-> [n \in {CorsHeaderNames[k] : k \in given} |->
                   v[CHOOSE k \in given : CorsHeaderNames[k] = n]]] :
     method \in {"GET", "OPTIONS"},
     given \in SUBSET {"origin", "m", "h"},
     v \in CorsHeaderValues}

InitCors ==
  /\ routes = <<>> /\ middleware = <<>> /\ heap = <<>> /\ ctxs = <<>>
  /\ fnOwner = <<>> /\ routeLog = <<>> /\ ctxLog = <<>> /\ rejected = <<>>
  /\ InitNoRun
  /\ cors = NoCors

NextCors ==
  \/ \E options \in CorsOptions : Cors(options)
  \/ \E req \in CorsRequests : CorsMiddleware(req)

SpecCors == InitCors /\ [][NextCors]_vars

----------------------------------------------------------------------------
(* SpecMalformed: routes registered on the application and through groups, *)
(* with patterns and prefixes that path-to-regexp compiles and that it     *)
(* rejects (a ':' without a name); user code catches the TypeError and     *)
(* goes on registering.                                                    *)

PatternInputs == {P_u, P_i, P_colon, P_ucolon}
MalformedPrefixes == {P_a, P_colon}

InitMalformed == InitApp /\ InitNoRun

NextMalformed ==
  /\ UNCHANGED runVars
  /\ \/ \E path \in PatternInputs :
          Len(rejected) < MaxRejected /\ AppRoute("GET", path, 1)
     \/ \E prefix \in MalformedPrefixes : AppGroup(prefix)
     \/ \E g \in 1..Len(ctxs) : CtxUse(g)
     \/ \E g \in 1..Len(ctxs), path \in PatternInputs :
          Len(rejected) < MaxRejected /\ CtxRoute(g, "GET", path, 1)
     \/ \E g \in 1..Len(ctxs), prefix \in MalformedPrefixes : CtxGroup(g, prefix)

SpecMalformed == InitMalformed /\ [][NextMalformed]_vars

----------------------------------------------------------------------------
(* SpecDyn: registration goes on while the server runs.  A registration    *)
(* call is made by another task of the event loop (before a request, after *)
(* it, or while a handler of it waits for a timer) or by the middleware or *)
(* handler that is running.  One request, GET /a/u, which a route of the   *)
(* application and a route of the group with the prefix /a both match; the *)
(* middleware await next().                                                *)

RegistrationTurn ==
  \/ MacrotaskTurn
  \/ Len(callStack) > 0 /\ Running(Top) /\ acts[Top].kind \in {"mw", "h"}

InitDyn ==
  /\ InitApp
  /\ reqs = [r \in 1..MaxRequests |-> NewRequest]
  /\ acts = <<>>
  /\ callStack = <<>>
  /\ microtasks = <<>>
  /\ crashed = FALSE
  /\ budget = [next |-> 0, suspend |-> MaxSuspend]

Registration ==
  /\ RegistrationTurn
  /\ UNCHANGED runVars
  /\ \/ AppUse
     \/ AppRoute("GET", P_au, MaxHandlers)
     \/ ctxs = <<>> /\ AppGroup(P_a)
     \/ \E g \in 1..Len(ctxs) : CtxUse(g)
     \/ \E g \in 1..Len(ctxs) : CtxRoute(g, "GET", P_u, MaxHandlers)

NextDyn ==
  \/ Registration
  \/ \E r \in DOMAIN reqs : HandleRequest(r, "GET", P_au, "empty")
  \/ \E r \in DOMAIN reqs : ParseBodyEnd(r)
  \/ \E r \in DOMAIN reqs : ResumeRequest(r)
  \/ \E a \in 1..Len(acts) : UserWrite(a, "json")
  \/ \E a \in 1..Len(acts) : UserNext(a, TRUE)
  \/ \E a \in 1..Len(acts) : UserSuspend(a)
  \/ \E a \in 1..Len(acts) : UserReturn(a)
  \/ \E a \in 1..Len(acts) : Await(a)
  \/ \E a \in 1..Len(acts) : Resume(a)
  \/ \E a \in 1..Len(acts) : Timer(a)
  \/ \E a \in 1..Len(acts) : FinalHandlerStep(a)

SpecDyn == InitDyn /\ [][NextDyn]_vars

----------------------------------------------------------------------------
(* SpecPreflight: the README's set-up, app.use(cors(options)) and a route  *)
(* app.post('/u/:i', h), then one request to /u/a, a POST or an OPTIONS,   *)
(* with the forms of the headers the middleware reads.  The handler        *)
(* answers with json or returns without answering.                         *)

PreflightMethods == {"POST", "OPTIONS"}
PreflightHeaders == {c.headers : c \in CorsRequests}

InitPreflight ==
  /\ \E options \in CorsOptions :
       cors = [pc |-> "made", options |-> MergedOptions(options), fn |-> 1]
  /\ LET a == App_route(App_use(NewApp), "POST", P_ui, 1) IN
       /\ routes = a.routes /\ middleware = a.middleware /\ heap = a.heap
       /\ ctxs = a.ctxs /\ fnOwner = a.fnOwner /\ routeLog = a.routeLog
       /\ ctxLog = a.ctxLog /\ rejected = a.rejected
  /\ reqs = [r \in 1..MaxRequests |-> NewRequest]
  /\ acts = <<>>
  /\ callStack = <<>>
  /\ microtasks = <<>>
  /\ crashed = FALSE
  /\ budget = [next |-> 0, suspend |-> 0]

NextPreflight ==
  \/ \E r \in DOMAIN reqs, method \in PreflightMethods, headers \in PreflightHeaders :
       HandleRequestWithHeaders(r, method, P_ua, "empty", headers)
  \/ \E r \in DOMAIN reqs : ParseBodyEnd(r)
  \/ \E r \in DOMAIN reqs : ResumeRequest(r)
  \/ \E a \in 1..Len(acts) : CorsInvoke(a)
  \/ \E a \in 1..Len(acts) : CorsReturn(a)
  \/ \E a \in 1..Len(acts) : acts[a].kind = "h" /\ UserWrite(a, "json")
  \/ \E a \in 1..Len(acts) : acts[a].kind = "h" /\ UserReturn(a)
  \/ \E a \in 1..Len(acts) : Await(a)
  \/ \E a \in 1..Len(acts) : Resume(a)
  \/ \E a \in 1..Len(acts) : FinalHandlerStep(a)

SpecPreflight == InitPreflight /\ [][NextPreflight]_vars

----------------------------------------------------------------------------
(* Claims on Router.match (SpecMatch).                                     *)

\* route i has the request's method (after upper-casing) and its pattern
\* matches the path
RouteMatches(i, method, path) ==
  /\ routes[i].method = ToUpperCase(method)
  /\ RegexExec(routes[i].regex, path).ok

\* C5. First-match precedence: match returns the earliest-registered route
\* among those whose method is the request's (after upper-casing) and
\* whose pattern matches the path; never a later one while an earlier one
\* matches; null exactly when no route matches.
C5_FirstMatch ==
  \A m \in ReqMethods, p \in ReqPaths :
    LET r == Match(routes, m, p).route IN
    /\ r \in 0..Len(routes)
    /\ (r = 0) <=> ~(\E i \in 1..Len(routes) : RouteMatches(i, m, p))
    /\ r # 0 => /\ RouteMatches(r, m, p)
                /\ \A j \in 1..(r - 1) : ~RouteMatches(j, m, p)

\* two routes with the same method and pattern (an exact duplicate) and
\* different handlers, and a request both match, resolved to the first
C5_Witness ==
  /\ Len(routes) = 2
  /\ routes[1].method = routes[2].method
  /\ routes[1].path = routes[2].path
  /\ routes[1].handlers # routes[2].handlers
  /\ \E p \in ReqPaths :
       /\ RouteMatches(1, "get", p) /\ RouteMatches(2, "get", p)
       /\ Match(routes, "get", p).route = 1

\* the segments of a string between its '/' characters
RECURSIVE SplitFrom(_, _, _)
SplitFrom(s, i, cur) ==
  IF i > Len(s) THEN <<cur>>
  ELSE IF s[i] = "/" THEN <<cur>> \o SplitFrom(s, i + 1, <<>>)
  ELSE SplitFrom(s, i + 1, Append(cur, s[i]))

Segments(s) == SplitFrom(s, 1, <<>>)

\* the positions of the pattern's segments that are parameters, in order
RECURSIVE ParamPositions(_, _)
ParamPositions(segs, k) ==
  IF k > Len(segs) THEN <<>>
  ELSE IF StartsWith(segs[k], ":") THEN <<k>> \o ParamPositions(segs, k + 1)
  ELSE ParamPositions(segs, k + 1)

\* the pattern syntax of the specification: a ':' only starts a segment
SegmentPattern(pattern) ==
  \A k \in 1..Len(pattern) : pattern[k] = ":" => (k > 1 /\ pattern[k - 1] = "/")

DistinctNames(pattern) ==
  LET segs == Segments(pattern)
      pos == ParamPositions(segs, 1) IN
  \A a, b \in 1..Len(pos) : a # b => segs[pos[a]] # segs[pos[b]]

\* C6. Parameter extraction: for a pattern with n distinctly named
\* parameters and a path that matches it, params has exactly n entries,
\* one per parameter name of the pattern, and the value of the i-th name
\* is the path segment at the position of the i-th parameter.
C6_ParamsBySegment ==
  \A m \in ReqMethods, p \in ReqPaths :
    LET res == Match(routes, m, p) IN
    (res.route # 0 /\ SegmentPattern(routes[res.route].path)
                   /\ DistinctNames(routes[res.route].path)) =>
      LET segs == Segments(routes[res.route].path)
          pos == ParamPositions(segs, 1)
          names == {Tail(segs[pos[k]]) : k \in 1..Len(pos)} IN
      /\ DOMAIN res.params = names
      /\ Cardinality(DOMAIN res.params) = Len(pos)
      /\ \A k \in 1..Len(pos) :
           res.params[Tail(segs[pos[k]])] = Segments(p)[pos[k]]

\* a route with two distinct parameters matched by a request path whose
\* two segments differ
C6_Witness ==
  \E p \in ReqPaths :
    LET res == Match(routes, "GET", p) IN
    /\ res.route # 0
    /\ routes[res.route].path = P_ij
    /\ res.params[<<"i">>] = <<"a">>
    /\ res.params[<<"j">>] = <<"u">>

----------------------------------------------------------------------------
(* Claims on group middleware (SpecReg).                                   *)

\* the middleware array of route i
RouteMiddleware(i) == ArrayAt(heap, routes[i].middleware)

Elems(q) == {q[k] : k \in 1..Len(q)}

\* history: context g and its ancestors
RECURSIVE AncestorsOrSelf(_)
AncestorsOrSelf(g) ==
  IF g = 0 THEN {} ELSE {g} \cup AncestorsOrSelf(ctxLog[g].parent)

\* C9. Registration-time capture: the middleware attached to a route is
\* the group's accumulated stack (inherited entries, then the use() calls
\* made so far) at the moment the route was registered, and no later use()
\* on that context or on an ancestor changes it.
C9_RegistrationCapture ==
  \A i \in 1..Len(routes) : RouteMiddleware(i) = routeLog[i].stack

\* a route registered through a context with a non-empty stack, and a
\* use() made on that context after the registration
C9_Witness ==
  \E i \in 1..Len(routes), f \in 1..Len(fnOwner) :
    /\ routeLog[i].ctx # 0
    /\ Len(routeLog[i].stack) > 0
    /\ fnOwner[f] = routeLog[i].ctx
    /\ f \notin Elems(routeLog[i].stack)
    /\ f \notin Elems(RouteMiddleware(i))

\* C10. Group middleware isolation: a function use()d on a group context
\* is in the chain of a route only if the route was registered through
\* that context or one of its descendants; never in the chain of a route
\* of the parent, of a sibling or of the application.
C10_GroupIsolation ==
  \A i \in 1..Len(routes) :
    \A f \in Elems(MiddlewareStack(middleware, RouteMiddleware(i))) :
      fnOwner[f] # 0 => fnOwner[f] \in AncestorsOrSelf(routeLog[i].ctx)

\* a nested context has use()d a function, its parent registers a route
\* with its own non-empty stack, and the route does not carry the
\* child's function
C10_Witness ==
  \E i \in 1..Len(routes), f \in 1..Len(fnOwner) :
    /\ fnOwner[f] # 0
    /\ routeLog[i].ctx # 0
    /\ ctxLog[fnOwner[f]].parent = routeLog[i].ctx
    /\ f \in Elems(heap[ctxs[fnOwner[f]].groupMiddleware])
    /\ Len(RouteMiddleware(i)) > 0
    /\ f < RouteMiddleware(i)[Len(RouteMiddleware(i))]
    /\ f \notin Elems(RouteMiddleware(i))

----------------------------------------------------------------------------
(* Claims on serving a request.                                            *)

ActsOf(r) == {a \in 1..Len(acts) : acts[a].rq = r}

\* no route of the table is registered for the request's method and path
NoRouteFor(r) ==
  \A i \in 1..Len(routes) : ~RouteMatches(i, reqs[r].method, reqs[r].path)

\* the request was matched and its chain has been started
Matched(r) == reqs[r].pc \in {"exec", "done"} /\ reqs[r].route # 0

\* nothing runs and nothing is scheduled any more
Quiet == callStack = <<>> /\ microtasks = <<>>

\* C1. Error containment: for a matched request whose middleware call
\* next() with or without awaiting it, when a middleware or a handler
\* throws an Error (or rejects with one), no rejection is left unhandled,
\* so the process is not terminated, and once nothing runs any more the
\* error has been caught in _handleRequest and a response is on the wire:
\* the 500 answer when nothing was sent before the catch.
C1_ErrorContainment ==
  \A r \in 1..MaxRequests :
    ( /\ Matched(r)
      /\ \A a \in ActsOf(r) : acts[a].passed = "none" /\ acts[a].threw \in {"none", "Error"}
      /\ \E a \in ActsOf(r) : acts[a].threw = "Error" )
    => /\ ~crashed
       /\ Quiet => /\ reqs[r].caught = "Error"
                   /\ reqs[r].res.ended = 1
                   /\ (\A b \in ActsOf(r) : ~acts[b].wrote)
                        => reqs[r].res.wire.status = 500

\* C2. Short-circuit: no middleware and no handler of a request is ever
\* started while res._sent is true, whoever sent the response and whatever
\* the sender does afterwards.
C2_ShortCircuit ==
  \A r \in 1..MaxRequests :
    \A k \in 1..Len(reqs[r].started) : ~reqs[r].started[k].afterSent

\* a middleware has sent the response and called next() afterwards, with
\* entries of the chain left that never started
C2_Witness ==
  \E a \in 1..Len(acts) :
    LET req == reqs[acts[a].rq] IN
    /\ acts[a].kind = "mw"
    /\ acts[a].wrote
    /\ acts[a].returned >= 1
    /\ req.pc = "done"
    /\ Len(req.started) < Len(req.middlewareStack) + Len(req.handlers)

RECURSIVE GroupChain(_)
GroupChain(g) ==
  IF g = 0 THEN <<>> ELSE GroupChain(ctxLog[g].parent) \o <<g>>

RECURSIVE UsesOfGroups(_, _)
UsesOfGroups(gs, k) ==
  IF k > Len(gs) THEN <<>>
  ELSE UsesFrom(fnOwner, gs[k], 1) \o UsesOfGroups(gs, k + 1)

\* the order the claim gives for route i: global middleware in use()
\* order, group middleware from the outermost group inwards, handlers
ExpectedChain(i) ==
  LET mws == UsesFrom(fnOwner, 0, 1) \o UsesOfGroups(GroupChain(routeLog[i].ctx), 1)
      hs == routes[i].handlers
  IN [k \in 1..Len(mws) |-> <<"mw", mws[k]>>] \o [k \in 1..Len(hs) |-> <<"h", hs[k]>>]

StartedEntries(r) ==
  [k \in 1..Len(reqs[r].started) |-> <<reqs[r].started[k].kind, reqs[r].started[k].fn>>]

IsPrefix(p, q) == Len(p) <= Len(q) /\ SubSeq(q, 1, Len(p)) = p

\* every middleware that ran called next() exactly once, with no error
\* argument and before any response, and every entry has returned
EachAdvanced(r) ==
  /\ reqs[r].writes = 0
  /\ \A a \in ActsOf(r) :
       /\ acts[a].st = "ok"
       /\ acts[a].kind = "mw" => acts[a].calls = 1 /\ acts[a].passed = "none"

C7_MissGives404 ==
  \A r \in 1..MaxRequests :
    (reqs[r].pc = "done" /\ NoRouteFor(r))
    => /\ reqs[r].res.wire.status = 404
       /\ reqs[r].res.wire.body = Body404(reqs[r])

----------------------------------------------------------------------------
(* Claims on nested groups.                                                *)

\* C11. Nested-group inheritance is a snapshot: the stack of a nested
\* context starts with the parent's stack as it was when group() was
\* called on the parent, and a route registered through the nested
\* context carries a function use()d on an ancestor only if that function
\* was in the parent's stack at that moment.
C11_NestedSnapshot ==
  \A g \in 1..Len(ctxs) :
    ctxLog[g].parent # 0 =>
      /\ IsPrefix(ctxLog[g].inherited, ArrayAt(heap, ctxs[g].groupMiddleware))
      /\ \A i \in 1..Len(routes) :
           routeLog[i].ctx = g =>
             \A f \in Elems(RouteMiddleware(i)) :
               fnOwner[f] # g => f \in Elems(ctxLog[g].inherited)

\* a route of a nested context that inherited a function, registered
\* after a later use() on the parent, and without that later function
C11_Witness ==
  \E i \in 1..Len(routes), f \in 1..Len(fnOwner) :
    LET g == routeLog[i].ctx IN
    /\ g # 0
    /\ ctxLog[g].parent # 0
    /\ Len(ctxLog[g].inherited) > 0
    /\ fnOwner[f] = ctxLog[g].parent
    /\ f \notin Elems(ctxLog[g].inherited)
    /\ f \in Elems(ArrayAt(heap, ctxs[ctxLog[g].parent].groupMiddleware))
    /\ RouteMiddleware(i) = ctxLog[g].inherited

\* a prefix in the form the claim assumes
WellFormedPrefix(p) == StartsWith(p, "/") /\ ~EndsWith(p, "/")

\* history: the prefixes given to group(), from the outermost group to g
GivenPrefixes(g) ==
  [k \in 1..Len(GroupChain(g)) |-> ctxLog[GroupChain(g)[k]].prefix]

RECURSIVE Concat(_, _)
Concat(ps, k) == IF k > Len(ps) THEN <<>> ELSE ps[k] \o Concat(ps, k + 1)

\* C12. Group prefixing: a route registered as path x through nested
\* groups with prefixes p1, ..., pk, each starting with "/" and not ending
\* with "/", is stored in the route table as p1 + ... + pk + x.
C12_GroupPrefixing ==
  \A i \in 1..Len(routes) :
    LET ps == GivenPrefixes(routeLog[i].ctx) IN
    (routeLog[i].ctx # 0 /\ \A k \in 1..Len(ps) : WellFormedPrefix(ps[k]))
    => routes[i].path = Concat(ps, 1) \o routeLog[i].path

\* the route /x of groups /a, /b, /c is stored as /a/b/c/x
C12_Witness ==
  \E i \in 1..Len(routes) :
    /\ GivenPrefixes(routeLog[i].ctx) = <<P_a, P_b, P_c>>
    /\ routeLog[i].path = P_u
    /\ routes[i].path = P_abcu

----------------------------------------------------------------------------
(* Claims on errors in the chain.                                          *)

\* C13. next(err) is equivalent to throwing err: when a middleware calls
\* next(err) (and nothing in the request throws or calls next() twice), no
\* later chain entry starts, no rejection is left unhandled, and once
\* nothing runs any more err has been caught in _handleRequest; the answer
\* is the 500 with err's message when nothing was sent before.
C13_NextErrIsThrow ==
  \A a \in 1..Len(acts) :
    LET r == acts[a].rq IN
    ( /\ acts[a].passed = "Error"
      /\ \A b \in ActsOf(r) : acts[b].threw = "none" /\ acts[b].calls <= 1 )
    => /\ ~crashed
       /\ Len(reqs[r].started) = acts[a].i
       /\ Quiet => /\ reqs[r].caught = "Error"
                   /\ (\A b \in ActsOf(r) : ~acts[b].wrote) =>
                        /\ reqs[r].res.wire.status = 500
                        /\ reqs[r].res.wire.body = Body500(reqs[r], "Error")

\* C14. Error after a response was sent: when a middleware or handler
\* that has called json / send / end then throws an Error (and it is the
\* only fault of the request), the error is only logged: no rejection is
\* left unhandled, the catch block of _handleRequest receives it once
\* nothing runs any more, and the dispatcher attempts no write of its own,
\* so every write call of the request is a call by user code.
C14_ErrorAfterSent ==
  \A a \in 1..Len(acts) :
    LET r == acts[a].rq IN
    ( /\ acts[a].wrote
      /\ acts[a].threw = "Error"
      /\ \A b \in ActsOf(r) : acts[b].passed = "none" /\ (b # a => acts[b].threw = "none") )
    => /\ ~crashed
       /\ Quiet => reqs[r].caught = "Error"
       /\ reqs[r].writes = Cardinality({b \in ActsOf(r) : acts[b].wrote})
       /\ reqs[r].res.wire = reqs[r].first

----------------------------------------------------------------------------
(* Claims on the handlers of a route.                                      *)

\* the handler calls made by the finalHandler invocation f
HandlersOf(f) == {b \in 1..Len(acts) : acts[b].kind = "h" /\ acts[b].par = f}

\* C15. Handler sequence: finalHandler invokes the handlers in order;
\* handler i+1 is invoked only after the promise of handler i has been
\* fulfilled and never while res._sent is true; and when finalHandler has
\* completed with nothing sent, every handler of the route has run.
C15_HandlerSequence ==
  \A f \in 1..Len(acts) :
    acts[f].kind = "fin" =>
      LET r == acts[f].rq IN
      /\ \A b \in HandlersOf(f) :
           /\ acts[b].i \in 1..Len(reqs[r].handlers)
           /\ \A k \in 1..(acts[b].i - 1) :
                \E c \in HandlersOf(f) : c < b /\ acts[c].i = k /\ acts[c].st = "ok"
      /\ \A k \in 1..Len(reqs[r].started) :
           reqs[r].started[k].kind = "h" => ~reqs[r].started[k].afterSent
      /\ (acts[f].st = "ok" /\ ~reqs[r].res.sent)
           => {acts[b].i : b \in HandlersOf(f)} = 1..Len(reqs[r].handlers)

\* two handlers ran to completion in order, one of them after waiting for
\* a timer, and nothing was sent
C15_Witness ==
  \E f \in 1..Len(acts) :
    LET r == acts[f].rq IN
    /\ acts[f].kind = "fin"
    /\ acts[f].st = "ok"
    /\ Len(reqs[r].handlers) = 2
    /\ Cardinality(HandlersOf(f)) = 2
    /\ budget.suspend = 0
    /\ ~reqs[r].res.sent
    /\ reqs[r].pc = "done"

\* C16. Route-specific middleware in handler position: when a function
\* (req, res, next) registered before the last handler of a route calls
\* next() without sending (and nothing else in the request fails), its
\* call does not fail, the following handler runs, and the client does
\* not receive the dispatcher's 500.
C16_MiddlewareAsHandler ==
  \A a \in 1..Len(acts) :
    LET r == acts[a].rq IN
    ( /\ acts[a].kind = "h"
      /\ acts[a].i < Len(reqs[r].handlers)
      /\ acts[a].calls = 1
      /\ ~acts[a].wrote
      /\ \A b \in ActsOf(r) \ {a} : acts[b].threw = "none" /\ acts[b].passed = "none" )
    => /\ acts[a].st # "err"
       /\ reqs[r].res.wire.status # 500
       /\ (Quiet /\ reqs[r].pc = "done")
            => \E c \in HandlersOf(acts[a].par) : acts[c].i = acts[a].i + 1

----------------------------------------------------------------------------
(* Claims on the order in which the entries of one chain run and finish.   *)

\* the middleware and handler calls of request r, in the order they started
Entries(r) == {a \in ActsOf(r) : acts[a].kind \in {"mw", "h"}}

Finished(a) == acts[a].st \in {"ok", "err"}

\* C17. Strictly sequential chain: two entries of one chain are never in
\* progress at the same time.  Checked on a visible effect: when an entry
\* is the only one that has called json / send / end and an entry started
\* after it exists, that later entry has finished -- the call came after
\* the later entry started, since a response sent earlier would have
\* stopped the chain, so the earlier entry was still at work.
C17_StrictlySequential ==
  \A r \in 1..MaxRequests :
    \A a, b \in Entries(r) :
      (a < b /\ acts[a].wrote /\ reqs[r].writes = 1) => Finished(b)

----------------------------------------------------------------------------
(* Claims on the request's params.                                         *)

----------------------------------------------------------------------------
(* Claims on requests in flight together.                                  *)

----------------------------------------------------------------------------
(* Claims on a chain that is not advanced.                                 *)

\* middleware a returned without calling next and without sending, in a
\* request where nothing throws and no error is passed to next
Halted(a) ==
  /\ acts[a].kind = "mw"
  /\ acts[a].st = "ok"
  /\ acts[a].calls = 0
  /\ ~acts[a].wrote
  /\ \A b \in ActsOf(acts[a].rq) : acts[b].threw = "none" /\ acts[b].passed = "none"

\* no entry after a has started, every write call is a call by user code,
\* and when no user code wrote, nothing is on the wire
NothingAfter(a) ==
  LET r == acts[a].rq IN
  /\ Len(reqs[r].started) = acts[a].i
  /\ reqs[r].writes = Cardinality({b \in ActsOf(r) : acts[b].wrote})
  /\ (\A b \in ActsOf(r) : ~acts[b].wrote)
       => reqs[r].res.ended = 0 /\ reqs[r].res.wire = NoWire

----------------------------------------------------------------------------
(* Claims on global middleware and on the request body.                    *)

\* the call of the k-th global middleware for request r, if any
GlobalCalls(r, k) == {a \in ActsOf(r) : acts[a].kind = "mw" /\ acts[a].i = k}

\* C22. Global middleware runs on every request: once the dispatcher has
\* decided between a route and the 404 for a request whose body parsed,
\* the first middleware registered with app.use() has been invoked for
\* it, and so has each further one whose predecessor advanced (called
\* next() without an error, no entry having sent).
C22_GlobalsOnEveryRequest ==
  \A r \in 1..MaxRequests :
    (reqs[r].pc \in {"exec", "done"} /\ ~ParseRejects(reqs[r].body)) =>
      \A k \in 1..Len(middleware) :
        ( /\ \A b \in ActsOf(r) : ~acts[b].wrote
          /\ \A j \in 1..(k - 1) :
               \E a \in GlobalCalls(r, j) : acts[a].calls >= 1 /\ acts[a].passed = "none" )
        => /\ GlobalCalls(r, k) # {}
           /\ Len(reqs[r].started) >= k
           /\ reqs[r].started[k].kind = "mw"
           /\ reqs[r].started[k].fn = middleware[k]

\* C23. Invalid JSON body: a request whose content-type is
\* application/json and whose body does not parse is answered with status
\* 400 and a message that names the parsing failure.
C23_InvalidJsonGives400 ==
  \A r \in 1..MaxRequests :
    (reqs[r].pc = "done" /\ ParseRejects(reqs[r].body))
    => /\ reqs[r].res.ended = 1
       /\ reqs[r].res.wire.status = 400
       /\ reqs[r].res.wire.body.message = ErrorMessage("InvalidJSON")

----------------------------------------------------------------------------
(* Claims on the CORS middleware (SpecCors).                               *)

\* the invocation called next once and did not end the response
CorsAdvanced ==
  /\ cors.nextCalls = 1
  /\ cors.res.wrapper.ended = 0
  /\ ~cors.res.wrapper.sent

\* the invocation ended the response and did not call next
CorsAnswered ==
  /\ cors.nextCalls = 0
  /\ cors.res.wrapper.ended = 1
  /\ cors.res.wrapper.sent

\* the request carries an Origin that the configured origin allows
CorsOriginAllowed ==
  /\ Truthy(cors.req.headers, "origin")
  /\ isOriginAllowed(cors.req.headers["origin"], cors.options.origin)

CorsHeader(name) ==
  IF name \in DOMAIN cors.res.headers THEN cors.res.headers[name] ELSE ""

----------------------------------------------------------------------------
(* Claims on termination (SpecLive).                                       *)

\* the request is over: _handleRequest has returned and every call made
\* for it has settled
Over(r) == reqs[r].pc = "done" /\ \A a \in ActsOf(r) : Finished(a)

\* some chain step of the request sent a response or threw
SentOrThrew(r) == \E a \in ActsOf(r) : acts[a].wrote \/ acts[a].threw # "none"

\* user code of the request threw something that is not an Error
ThrewNonError(r) == \E a \in ActsOf(r) : acts[a].threw = "null"

\* C26. Every request reaches DONE: a request whose body has been read is
\* eventually over (in a run where what user code throws is an Error);
\* then a miss has the 404 on the wire, and a hit in which some chain step
\* sent or threw has exactly one response on the wire.
C26_EveryRequestDone ==
  \A r \in 1..MaxRequests :
    (reqs[r].pc = "parse" /\ ~ParseRejects(reqs[r].body)) ~>
      \/ ThrewNonError(r)
      \/ /\ Over(r)
         /\ NoRouteFor(r) => reqs[r].res.ended = 1 /\ reqs[r].res.wire.status = 404
         /\ (Matched(r) /\ SentOrThrew(r)) => reqs[r].res.ended = 1

----------------------------------------------------------------------------
(* Claims on the 500 answer (SpecThrow).                                   *)

\* C27. 500 body shape: every 500 answer written by the dispatcher has the
\* body {error: "Internal Server Error", message, path, method} with all
\* four fields present, message being the message of the caught value and
\* path and method those of the request, whatever was thrown or passed to
\* next.
C27_Body500Shape ==
  \A r \in 1..MaxRequests :
    (reqs[r].caught # "none" /\ reqs[r].res.wire.status = 500) =>
      /\ reqs[r].res.wire.body.keys = {"error", "message", "path", "method"}
      /\ reqs[r].res.wire.body.error = "Internal Server Error"
      /\ reqs[r].res.wire.body.message = ErrorMessage(reqs[r].caught)
      /\ reqs[r].res.wire.body.path = reqs[r].path
      /\ reqs[r].res.wire.body.method = reqs[r].method

----------------------------------------------------------------------------
(* Claims on the form of prefixes and paths.                               *)

\* C28. Prefix normalization: for every prefix given to group() at any
\* nesting depth (with or without a leading slash, with any number of
\* trailing slashes, or empty) the context's resolved prefix starts with
\* "/" and does not end with "/" unless it is exactly "/".
C28_PrefixNormalized ==
  \A g \in 1..Len(ctxs) :
    /\ StartsWith(ctxs[g].cleanPrefix, "/")
    /\ EndsWith(ctxs[g].cleanPrefix, "/") => ctxs[g].cleanPrefix = P_root

\* the table in which route i was registered with pattern path instead
WithPattern(rs, i, path) ==
  [rs EXCEPT ![i] = AddRoute(<<>>, rs[i].method, path, rs[i].handlers,
                             rs[i].middleware).routes[1]]

WithSlash(s) == Append(s, "/")

\* C29. Trailing-slash symmetry: for every route of the table whose
\* pattern P is not the root, and every request path p (neither ending
\* with a slash), the table with P and the table with P + "/" give the
\* same match result for p and for p + "/": all four agree.
C29_TrailingSlashSymmetry ==
  \A i \in 1..Len(routes) :
    (routes[i].path # P_root /\ ~EndsWith(routes[i].path, "/")) =>
      LET slashed == WithPattern(routes, i, WithSlash(routes[i].path)) IN
      \A m \in ReqMethods, p \in {q \in ReqPaths : ~EndsWith(q, "/")} :
        LET result == Match(routes, m, p) IN
        /\ Match(routes, m, WithSlash(p)) = result
        /\ Match(slashed, m, p) = result
        /\ Match(slashed, m, WithSlash(p)) = result

\* C30. Literal segments match case-sensitively: when a route's pattern
\* matches a request path, every literal segment of the pattern is equal,
\* character for character, to the path's segment at the same position; a
\* path that differs from the pattern in letter case only is a miss.
C30_LiteralCaseSensitive ==
  \A i \in 1..Len(routes), p \in ReqPaths :
    (SegmentPattern(routes[i].path) /\ RegexExec(routes[i].regex, p).ok) =>
      LET segs == Segments(routes[i].path) IN
      \A k \in 1..Len(segs) :
        ~StartsWith(segs[k], ":") =>
          k <= Len(Segments(p)) /\ Segments(p)[k] = segs[k]

----------------------------------------------------------------------------
(* Claims on registration with patterns that do not compile                *)
(* (SpecMalformed).                                                        *)

\* the pattern has a ':' that no parameter name follows
EmptyParamName(path) ==
  \E i \in 1..Len(path) :
    path[i] = ":" /\ (i = Len(path) \/ path[i + 1] \in {"/", ":"})

\* a path written after the pattern: every parameter stands for "x"
RECURSIVE InstanceFrom(_, _)
InstanceFrom(path, i) ==
  IF i > Len(path) THEN <<>>
  ELSE IF path[i] = ":" THEN <<"x">> \o InstanceFrom(path, NameEnd(path, i + 1))
  ELSE <<path[i]>> \o InstanceFrom(path, i + 1)

\* the registration call threw: it is the last entry of the log, and neither
\* the route table, nor any array (a group's stack, a route's middleware),
\* nor the contexts, nor the global middleware changed
Threw(g, path) ==
  /\ rejected' = Append(rejected, [ctx |-> g, path |-> path])
  /\ UNCHANGED <<routes, heap, ctxs, middleware, routeLog>>

\* C31. Malformed pattern fails registration: a registration call, on the
\* application or on a group context, whose full pattern has an empty
\* parameter name throws; it appends no route and leaves the route table and
\* the group's middleware stack unchanged; every route that is stored has a
\* well-formed pattern and matches some path.
C31_MalformedFailsRegistration ==
  [][/\ \A path \in PatternInputs :
          (EmptyParamName(path) /\ AppRoute("GET", path, 1)) => Threw(0, path)
     /\ \A g \in 1..Len(ctxs), path \in PatternInputs :
          (EmptyParamName(ctxs[g].cleanPrefix \o path) /\ CtxRoute(g, "GET", path, 1))
            => Threw(g, path)
     /\ routes' # routes =>
          /\ ~EmptyParamName(routes'[Len(routes')].path)
          /\ RegexExec(routes'[Len(routes')].regex,
                       InstanceFrom(routes'[Len(routes')].path, 1)).ok
          /\ rejected' = rejected]_vars

\* a route is stored, and a registration through a group that has a
\* middleware stack was rejected, as was one on the application
C31_Witness ==
  /\ Len(routes) > 0
  /\ \E k \in 1..Len(rejected) : rejected[k].ctx = 0
  /\ \E k \in 1..Len(rejected) :
       /\ rejected[k].ctx # 0
       /\ Len(heap[ctxs[rejected[k].ctx].groupMiddleware]) > 0
       /\ ~EmptyParamName(rejected[k].path)

----------------------------------------------------------------------------
(* Claims on the number of invocations of a chain entry (Spec).            *)

\* the activations of request r that are invocations of entry i of the
\* middleware stack (kind "mw") or of handler i of the route (kind "h")
Invocations(r, kind, i) ==
  {a \in ActsOf(r) : acts[a].kind = kind /\ acts[a].i = i}

\* C33. Each chain entry runs at most once per request: every middleware of
\* the assembled chain and every handler of the matched route is invoked at
\* most once, also when a middleware calls next more than once or calls it
\* without awaiting and goes on.
C33_AtMostOncePerRequest ==
  \A r \in DOMAIN reqs, kind \in {"mw", "h"}, i \in 1..MaxChain :
    Cardinality(Invocations(r, kind, i)) <= 1

----------------------------------------------------------------------------
(* Claims on registration while the server runs (SpecDyn).                 *)

\* route i is after the step what it was before it: its fields, and the
\* contents of its middleware array
RouteUnchanged(i) ==
  /\ routes'[i] = routes[i]
  /\ ArrayAt(heap', routes[i].middleware) = ArrayAt(heap, routes[i].middleware)

\* C32. The route table is append-only: every registration call that
\* succeeds, on the application or on a group context, appends exactly one
\* route; no step changes the method, pattern, matcher, handlers or
\* middleware of a route registered before (so _addGroupMiddlewareToRoute
\* writes only the route its own call appended); the steps of match and of
\* request dispatch change neither the table nor any array.
C32_AppendOnly ==
  [][/\ Len(routes') \in {Len(routes), Len(routes) + 1}
     /\ \A i \in 1..Len(routes) : RouteUnchanged(i)
     /\ AppRoute("GET", P_au, MaxHandlers) => Len(routes') = Len(routes) + 1
     /\ \A g \in 1..Len(ctxs) :
          CtxRoute(g, "GET", P_u, MaxHandlers) => Len(routes') = Len(routes) + 1
     /\ runVars' # runVars => routes' = routes /\ heap' = heap]_vars

\* two routes, the first registered before the request was matched to it
\* and served, the second registered through the group, with the group's
\* middleware, after an entry of the request had started: fewer calls had
\* been made by then than two route calls, the group call and the use
\* calls that came before the second route
C32_Witness ==
  /\ Len(routes) = 2
  /\ routeLog[2].ctx # 0
  /\ Len(ArrayAt(heap, routes[2].middleware)) > 0
  /\ \E r \in DOMAIN reqs :
       /\ reqs[r].pc = "done"
       /\ reqs[r].route = 1
       /\ Len(reqs[r].started) > 0
       /\ reqs[r].started[1].regs < 3 + routeLog[2].uses

\* the chain of a request: its middleware stack, then the handlers of its
\* route, as (kind, function) pairs
ChainOf(req) ==
  [k \in 1..Len(req.middlewareStack) |-> <<"mw", req.middlewareStack[k]>>]
    \o [k \in 1..Len(req.handlers) |-> <<"h", req.handlers[k]>>]

\* the entries that have started for a request, in the order they started
StartedOf(req) ==
  [k \in 1..Len(req.started) |-> <<req.started[k].kind, req.started[k].fn>>]

\* C34. A request's chain is a snapshot taken at match time: the step that
\* matches the route fixes the chain (the global middleware and the route's
\* middleware and handlers as they are at that step); while the request is
\* in flight no step, and so no use() or route registration, on the
\* application or on a group, changes it; and the entries that start are
\* the entries of that chain, in its order.
C34_ChainSnapshot ==
  [][\A r \in DOMAIN reqs :
       LET m == Match(routes, reqs[r].method, reqs[r].path).route IN
       /\ (reqs[r].pc = "parse" /\ reqs'[r].pc = "exec") =>
            /\ reqs'[r].middlewareStack =
                 middleware \o ArrayAt(heap, routes[m].middleware)
            /\ reqs'[r].handlers = routes[m].handlers
       /\ reqs[r].pc = "exec" => ChainOf(reqs'[r]) = ChainOf(reqs[r])
       /\ IsPrefix(StartedOf(reqs'[r]), ChainOf(reqs'[r]))]_vars

\* a request ran its whole chain, a use() on the application and another
\* registration call were made while it was in flight, between the start of
\* its first entry and the start of a later one
C34_Witness ==
  \E r \in DOMAIN reqs :
    LET req == reqs[r] IN
    /\ req.pc = "done"
    /\ req.route # 0
    /\ Len(req.started) = Len(req.middlewareStack) + Len(req.handlers)
    /\ Len(req.middlewareStack) > 0
    /\ Len(middleware) + Len(ArrayAt(heap, routes[req.route].middleware))
         > Len(req.middlewareStack)
    /\ \E k \in 2..Len(req.started) : req.started[k].regs >= req.started[1].regs + 2

\* C35. Global middleware is resolved at dispatch, not at registration:
\* the step that matches a request to a route puts every middleware added
\* with app.use() so far at the head of the request's chain, in the order of
\* the use() calls, whether the route was registered before or after them
\* and on the application or through a group, followed by the group
\* middleware the route captured when it was registered; the first of them
\* is invoked in that step, and each further one once its predecessors have
\* called next() with nothing sent.
C35_GlobalsResolvedAtDispatch ==
  [][\A r \in DOMAIN reqs :
       LET m == Match(routes, reqs[r].method, reqs[r].path).route
           req == reqs'[r]
           globals == Len(req.middlewareStack) - Len(routeLog[req.route].stack)
       IN
       /\ (reqs[r].pc = "parse" /\ req.pc = "exec") =>
            /\ req.route = m
            /\ IsPrefix(middleware, req.middlewareStack)
            /\ Len(req.middlewareStack) = Len(middleware) + Len(routeLog[m].stack)
            /\ \A k \in 1..Len(routeLog[m].stack) :
                 req.middlewareStack[Len(middleware) + k] = routeLog[m].stack[k]
            /\ middleware # <<>> =>
                 StartedOf(req) = <<(<<"mw", middleware[1]>>)>>
       /\ (req.pc \in {"exec", "done"} /\ req.route # 0) =>
            \A k \in 1..globals :
              ( /\ \A b \in 1..Len(acts') : acts'[b].rq = r => ~acts'[b].wrote
                /\ \A j \in 1..(k - 1) :
                     \E a \in 1..Len(acts') :
                       /\ acts'[a].rq = r /\ acts'[a].kind = "mw" /\ acts'[a].i = j
                       /\ acts'[a].calls >= 1 )
              => /\ Len(req.started) >= k
                 /\ req.started[k].kind = "mw"
                 /\ fnOwner[req.started[k].fn] = 0]_vars

\* a request matched a route of a group; two middleware added with
\* app.use(), one before that route was registered and one after it, have
\* both been invoked for the request
C35_Witness ==
  \E r \in DOMAIN reqs :
    LET req == reqs[r] IN
    /\ req.pc \in {"exec", "done"}
    /\ req.route # 0
    /\ routeLog[req.route].ctx # 0
    /\ Len(req.started) >= 2
    /\ \A k \in 1..2 :
         /\ req.started[k].kind = "mw"
         /\ fnOwner[req.started[k].fn] = 0
    /\ req.started[1].fn <= routeLog[req.route].uses
    /\ req.started[2].fn > routeLog[req.route].uses

----------------------------------------------------------------------------
(* Claims on the CORS middleware behind the dispatcher (SpecPreflight).    *)

\* request r is a preflight from an origin the configuration allows, to a
\* path that a route registered under another method matches
PreflightFor(r) ==
  LET req == reqs[r] IN
  /\ req.method = "OPTIONS"
  /\ Truthy(req.headers, "origin")
  /\ isOriginAllowed(req.headers["origin"], cors.options.origin)
  /\ Truthy(req.headers, "access-control-request-method")
  /\ \E i \in 1..Len(routes) :
       routes[i].method # "OPTIONS" /\ RegexExec(routes[i].regex, req.path).ok

\* C36. CORS preflight through the dispatcher: with cors() registered by
\* app.use(), a preflight (OPTIONS, an allowed Origin, the header
\* Access-Control-Request-Method) to a path registered under another method
\* is answered by the CORS middleware: once the request is over the
\* middleware has been invoked, the response was ended exactly once with
\* the status optionsSuccessStatus and the preflight headers, and no
\* handler has run.
C36_PreflightAnswered ==
  \A r \in DOMAIN reqs :
    (reqs[r].pc = "done" /\ PreflightFor(r)) =>
      /\ cors.pc = "invoked"
      /\ cors.nextCalls = 0
      /\ "Access-Control-Allow-Origin" \in DOMAIN cors.res.headers
      /\ "Access-Control-Allow-Methods" \in DOMAIN cors.res.headers
      /\ reqs[r].res.ended = 1
      /\ reqs[r].writes = 1
      /\ reqs[r].res.wire.status = OptionsSuccessStatus(cors.options)
      /\ \A a \in ActsOf(r) : acts[a].kind # "h"

====
